---- MODULE Spec2Model ----
(***************************************************************************)
(* A model of the body codecs of reqwless: the buffering chunked body      *)
(* writer (src/body_writer/buffering_chunked.rs), the streaming chunked    *)
(* body writer (src/body_writer/chunked.rs), the fixed body writer         *)
(* (src/body_writer/fixed.rs) under write_request (src/client.rs), the     *)
(* chunked and fixed-length response body readers (src/response/chunked.rs,*)
(* src/response/fixed_length.rs), the buffering reader (src/reader.rs) and *)
(* Response::read with the body readers made from it                       *)
(* (src/response/mod.rs), the request header (src/request.rs), the status  *)
(* classes (src/response/mod.rs), and HttpConnection with its buffered     *)
(* write, send and HttpRequestHandle::send (src/client.rs,                 *)
(* src/buffering.rs).                                                      *)
(*                                                                         *)
(* Bytes are their ASCII codes.  A Rust slice index i (0-based) is the     *)
(* sequence index i + 1.  An operation of a writer is an operator from the *)
(* writer's record to the record after the call; the field res is "ok",    *)
(* "err" (the call returned Err) or "panic" (an assertion or a slice       *)
(* bounds check failed), the field ret is the count returned by write.     *)
(***************************************************************************)
EXTENDS Integers, Sequences, FiniteSets, TLC

VARIABLES bw, last, raw, cw, rd, resp, fw

vars == <<bw, last, raw, cw, rd, resp, fw>>

\* ------------------------------------------------------------------ bounds

\* Buffer lengths 3..MaxBufLen are tried with every count of pre-written
\* bytes, and the buffers of BigBufs.
MaxBufLen == 8
\* The caller hands at most MaxWrite bytes to one small write call.
MaxWrite == 2
\* The caller's small writes stop once MaxBody bytes have been accepted.
MaxBody == 4
\* The caller makes no further call once the transport has completed MaxEmits
\* writes.
MaxEmits == 8
\* The caller makes at most MaxAfter calls on a writer that has been terminated.
MaxAfter == 1
\* The reader's caller reads into buffers of 1..MaxReadBuf bytes, and the
\* transport hands over at most MaxReadBuf bytes at a time.
MaxReadBuf == 3
\* The source delivers at most MaxExtra bytes after the end of a body.
MaxExtra == 2
\* The response header is HeadLen bytes long.
HeadLen == 5
\* The source has 1..MaxReadBuf bytes at hand for a read, or AllAtHand.
AllAtHand == 64
\* The body of a response is at most MaxResponseBody bytes long.
MaxResponseBody == 3
\* A transport that fails does so after at most MaxOkCalls completed writes.
MaxOkCalls == 5

\* <<length, written>>.  20: the reserved header slot (4) is wider than any
\* header written (3), so every chunk is moved left.  22: a full chunk has a
\* two-digit size line.
BigBufs == {<<20, 0>>, <<22, 0>>, <<25, 5>>}
\* One long write that fills the largest buffer and leaves one byte over.
LongWrite == {17}

Bufs == {<<len, written>> \in (3..MaxBufLen) \X (0..MaxBufLen) : written <= len} \cup BigBufs
SrcLens == (0..MaxWrite) \cup LongWrite

\* ----------------------------------------------------------------- helpers

Min(a, b) == IF a < b THEN a ELSE b

\* usize::saturating_sub
SatSub(a, b) == IF a > b THEN a - b ELSE 0

\* The Rust range s[a..b].
Slice(s, a, b) == SubSeq(s, a + 1, b)

\* dst[at..at + data.len()].copy_from_slice(data)
CopyInto(dst, at, data) ==
  [i \in 1..Len(dst) |-> IF i > at /\ i <= at + Len(data) THEN data[i - at] ELSE dst[i]]

\* buf.copy_within(from..to, 0)
CopyWithin(buf, from, to) == CopyInto(buf, 0, Slice(buf, from, to))

\* `v` evaluated once and handed to F.
Let(v, F(_)) == CHOOSE r \in {F(x) : x \in {v}} : TRUE

\* The `?` of Rust: F goes on from the record s unless the call that made s
\* returned Err or panicked.
Then(s, F(_)) == CHOOSE r \in {IF x.res # "ok" THEN x ELSE F(x) : x \in {s}} : TRUE

RECURSIVE Flat(_)
\* The concatenation of a sequence of byte sequences.
Flat(ss) == IF ss = <<>> THEN <<>> ELSE Head(ss) \o Flat(Tail(ss))

\* The i-th byte (0-based) of the caller's body, and of the pre-written data.
\* Letters, and the bytes a chunk's framing is made of.
BodyByte(i) == <<65, 48, 13, 10, 66, 97, 67>>[(i % 7) + 1]

PrefixByte(i) == <<72, 69, 76, 76, 79>>[(i % 5) + 1]

BodySlice(from, n) == [i \in 1..n |-> BodyByte(from + i - 1)]

\* --------------------------------------------------------------- constants

NEWLINE == <<13, 10>>
EMPTY_CHUNK == <<48, 13, 10, 13, 10>>

\* size_of::<usize>() of the build target.
UsizeBytes == 8

\* hex::encode_to_slice of one nibble: lower-case digits.
HexChar(d) == IF d < 10 THEN 48 + d ELSE 87 + d

RECURSIVE HexEncode(_, _)
\* hex::encode_to_slice(n.to_be_bytes()): `width` digits, most significant first.
HexEncode(n, width) ==
  IF width = 0 THEN <<>> ELSE Append(HexEncode(n \div 16, width - 1), HexChar(n % 16))

RECURSIVE BitLen(_)
\* usize::BITS - number.leading_zeros()
BitLen(n) == IF n = 0 THEN 0 ELSE 1 + BitLen(n \div 2)

\* Fault injection for C31: the bit length divided by 4 and rounded down.
get_num_hex_chars_rounded_down(number) ==
  IF number = 0 THEN 1 ELSE BitLen(number) \div 4

get_num_hex_chars(number) ==
  IF number = 0 THEN 1 ELSE (BitLen(number) + 3) \div 4

get_max_chunk_header_size(buffer_size) ==
  IF buffer_size >= 2 * Len(NEWLINE)
  THEN get_num_hex_chars(buffer_size - 2 * Len(NEWLINE)) + Len(NEWLINE)
  ELSE 0

\* hex.iter().position(|x| *x != b'0').unwrap_or(hex.len() - 1)
LeadingZeros(hex) ==
  IF \E i \in 1..Len(hex) : hex[i] # 48
  THEN (CHOOSE i \in 1..Len(hex) : hex[i] # 48 /\ \A j \in 1..(i - 1) : hex[j] = 48) - 1
  ELSE Len(hex) - 1

\* The body of write_chunked_header once hex holds the digits.
write_header_digits(hbuf, hex, leading_zeros) ==
  IF Len(hex) - leading_zeros + Len(NEWLINE) > Len(hbuf)
  THEN [buf |-> hbuf, len |-> 0, panic |-> TRUE]
  ELSE [buf |-> CopyInto(CopyInto(hbuf, 0, Slice(hex, leading_zeros, Len(hex))),
                         Len(hex) - leading_zeros, NEWLINE),
        len |-> Len(hex) - leading_zeros + 2,
        panic |-> FALSE]

\* write_chunked_header(buf, chunk_len): the slice after the call, the length
\* of the size line, and whether a slice index was out of bounds.
write_chunked_header(hbuf, chunk_len) ==
  Let(HexEncode(chunk_len, 2 * UsizeBytes),
      LAMBDA hex : write_header_digits(hbuf, hex, LeadingZeros(hex)))

\* --------------------------------------------------------------- transport

\* How the transport behaves during one call of a writer: it completes
\* ok_calls write_all calls (-1: all of them) and fails the next one after
\* accepting none of its bytes (part = "none") or all but the last ("most");
\* flush_ok: its flush succeeds.
NoFail == [ok_calls |-> -1, part |-> "none", flush_ok |-> TRUE]

IoPlans ==
  {NoFail} \cup
  [ok_calls : 0..1, part : {"none", "most"}, flush_ok : {TRUE}] \cup
  {[ok_calls |-> -1, part |-> "none", flush_ok |-> FALSE]}

\* conn.write_all(data) of embedded_io_async: writes until data is used up, so
\* an empty slice makes no transport write.  conn holds the data of each
\* completed call, torn the bytes the transport took of a failed one.
conn_write_all(self, data) ==
  IF data = <<>> THEN self
  ELSE IF self.io.ok_calls = 0
  THEN [self EXCEPT !.torn = IF self.io.part = "most"
                                THEN SubSeq(data, 1, Len(data) - 1) ELSE <<>>,
                    !.flushed = FALSE,
                    !.res = "err"]
  ELSE [self EXCEPT !.conn = Append(@, data),
                    !.flushed = FALSE,
                    !.io.ok_calls = IF @ > 0 THEN @ - 1 ELSE @]

\* conn.flush()
conn_flush(self) ==
  IF self.io.flush_ok THEN [self EXCEPT !.flushed = TRUE] ELSE [self EXCEPT !.res = "err"]

\* Every byte the transport has taken, in order.
Wire(self) == Flat(self.conn) \o self.torn

Panic(self) == [self EXCEPT !.res = "panic"]

\* ------------------------------------------------ BufferingChunkedBodyWriter

\* new_with_data(conn, buf, written) with both assertions passed.
new_with_data(cbuf, written) ==
  [conn |-> <<>>, torn |-> <<>>, flushed |-> FALSE, io |-> NoFail,
   buf |-> cbuf,
   header_pos |-> written,
   pos |-> written + get_max_chunk_header_size(Len(cbuf) - written),
   allocated_header |-> get_max_chunk_header_size(Len(cbuf) - written),
   terminated |-> FALSE,
   res |-> "ok", ret |-> 0, taken |-> 0, fin |-> <<>>]

\* The two assertions of new_with_data.
new_with_data_accepts(len, written) ==
  /\ written <= len
  /\ len > get_max_chunk_header_size(len - written) + Len(NEWLINE)

\* The body of append_current_chunk once `buffered` is known.
append_buffered(self, src, buffered) ==
  IF buffered > 0
  THEN [self EXCEPT !.buf = CopyInto(@, self.pos, SubSeq(src, 1, buffered)),
                    !.pos = @ + buffered,
                    !.ret = buffered]
  ELSE [self EXCEPT !.ret = 0]

\* Fault injection for C29: append_current_chunk that leaves no room for the
\* chunk footer.
append_current_chunk_into_footer(self, src) ==
  append_buffered(self, src, Min(Len(src), SatSub(Len(self.buf), self.pos)))

append_current_chunk(self, src) ==
  append_buffered(self, src,
                  Min(Len(src), SatSub(Len(self.buf), Len(NEWLINE) + self.pos)))

\* finish_current_chunk from "Write newline footer after chunk payload" on:
\* the footer, and the header slot of the next chunk.
finish_footer(self) ==
  IF self.pos + Len(NEWLINE) > Len(self.buf) THEN Panic(self)
  ELSE [self EXCEPT !.buf = CopyInto(@, self.pos, NEWLINE),
                    !.header_pos = self.pos + 2,
                    !.allocated_header =
                        get_max_chunk_header_size(Len(self.buf) - (self.pos + 2)),
                    !.pos = self.pos + 2
                            + get_max_chunk_header_size(Len(self.buf) - (self.pos + 2))]

\* Fault injection for C3: finish_current_chunk that leaves the payload where
\* it is when the size line is shorter than its slot.
finish_without_move(self, header_len) == self

\* finish_current_chunk from "Move the payload ..." to the footer: the payload
\* is moved left by spacing = allocated_header - header_len.
\* buf.copy_within(header_pos + allocated_header..pos, header_pos + header_len)
finish_move_payload(self, header_len) ==
  IF self.allocated_header - header_len > 0
  THEN [self EXCEPT !.buf = CopyInto(@, self.header_pos + header_len,
                                     Slice(@, self.header_pos + self.allocated_header,
                                           self.pos)),
                    !.pos = @ - (self.allocated_header - header_len)]
  ELSE self

\* What finish_current_chunk did, kept in fin for the calls of one operation:
\* the width of the slot and of the size line, whether the size line fitted
\* the slot, the payload before the call and the chunk left in the buffer.
finalised(self, h, f) ==
  [f EXCEPT !.fin = Append(@, [slot |-> self.allocated_header,
                               header_len |-> h.len,
                               fits |-> ~h.panic,
                               payload |-> Slice(self.buf,
                                                 self.header_pos + self.allocated_header,
                                                 self.pos),
                               chunk |-> IF f.res = "ok"
                                         THEN Slice(f.buf, self.header_pos, f.header_pos)
                                         ELSE <<>>])]

\* finish_current_chunk once write_chunked_header has returned h.
finish_with_header(self, h) ==
  IF h.panic THEN finalised(self, h, Panic(self))
  ELSE Let(Then(finish_move_payload(
                  [self EXCEPT !.buf = CopyInto(@, self.header_pos, h.buf)], h.len),
                LAMBDA s : finish_footer(s)),
           LAMBDA f : finalised(self, h, f))

finish_current_chunk(self) ==
  IF \/ self.pos - self.header_pos - self.allocated_header < 0
     \/ self.header_pos + self.allocated_header > Len(self.buf)
  THEN Panic(self)
  ELSE Let(write_chunked_header(
             Slice(self.buf, self.header_pos, self.header_pos + self.allocated_header),
             self.pos - self.header_pos - self.allocated_header),
           LAMBDA h : finish_with_header(self, h))

current_chunk_is_full(self) == self.pos + Len(NEWLINE) = Len(self.buf)

\* Fault injection for C2: emit_buffered that forgets to reset header_pos, so
\* that bytes already sent are sent again.
emit_reset_keeping_header_pos(self) ==
  [self EXCEPT !.allocated_header = get_max_chunk_header_size(Len(self.buf)),
               !.pos = self.header_pos + get_max_chunk_header_size(Len(self.buf))]

\* emit_buffered after conn.write_all has returned Ok.
emit_reset(self) ==
  [self EXCEPT !.header_pos = 0,
               !.allocated_header = get_max_chunk_header_size(Len(self.buf)),
               !.pos = get_max_chunk_header_size(Len(self.buf))]

\* Fault injection for C10: emit_buffered that sends the buffer up to pos, the
\* open chunk included.
emit_buffered_up_to_pos(self) ==
  IF self.pos > Len(self.buf) THEN Panic(self)
  ELSE Then(conn_write_all(self, Slice(self.buf, 0, self.pos)),
            LAMBDA s : emit_reset(s))

emit_buffered(self) ==
  IF self.header_pos > Len(self.buf) THEN Panic(self)
  ELSE Then(conn_write_all(self, Slice(self.buf, 0, self.header_pos)),
            LAMBDA s : emit_reset(s))

\* terminate from the copy of EMPTY_CHUNK into the buffer on.
terminate_empty_chunk(self) ==
  IF self.header_pos + Len(EMPTY_CHUNK) > Len(self.buf) THEN Panic(self)
  ELSE Then(emit_buffered(
              [self EXCEPT !.buf = CopyInto(@, self.header_pos, EMPTY_CHUNK),
                           !.header_pos = @ + Len(EMPTY_CHUNK),
                           !.allocated_header = 0,
                           !.pos = self.header_pos + Len(EMPTY_CHUNK)]),
            LAMBDA s : [s EXCEPT !.terminated = TRUE])

\* terminate from "There is not enough space to fit the empty chunk" on.
terminate_make_room(self) ==
  Then(IF self.header_pos + Len(EMPTY_CHUNK) > Len(self.buf) THEN emit_buffered(self) ELSE self,
       LAMBDA s : terminate_empty_chunk(s))

terminate(self) ==
  IF self.terminated THEN Panic(self)
  ELSE Then(IF self.pos > self.header_pos + self.allocated_header
            THEN finish_current_chunk(self) ELSE self,
            LAMBDA s : terminate_make_room(s))

\* write from `if self.current_chunk_is_full()` on.
write_emit_full(self) ==
  Then(IF current_chunk_is_full(self)
       THEN Then(finish_current_chunk(self), LAMBDA f : emit_buffered(f))
       ELSE self,
       LAMBDA s : [s EXCEPT !.taken = @ + s.ret])

\* write from `if written == 0` on.
write_retry(self, src) ==
  Then(IF self.ret = 0
       THEN Then(emit_buffered(self), LAMBDA e : append_current_chunk(e, src))
       ELSE self,
       LAMBDA s : write_emit_full(s))

\* Fault injection for C7: write without the early return for an empty source.
write_without_empty_check(self, src) ==
  Then(append_current_chunk(self, src), LAMBDA s : write_retry(s, src))

write(self, src) ==
  IF src = <<>> THEN [self EXCEPT !.ret = 0]
  ELSE Then(append_current_chunk(self, src), LAMBDA s : write_retry(s, src))

\* Fault injection for C9: flush that sends nothing when no chunk is open.
flush_open_chunk_only(self) ==
  Then(IF self.pos > self.header_pos + self.allocated_header
       THEN Then(finish_current_chunk(self), LAMBDA f : emit_buffered(f))
       ELSE self,
       LAMBDA s : conn_flush(s))

flush(self) ==
  Then(IF self.pos > self.header_pos + self.allocated_header
       THEN Then(finish_current_chunk(self), LAMBDA f : emit_buffered(f))
       ELSE IF self.header_pos > 0 THEN emit_buffered(self)
       ELSE self,
       LAMBDA s : conn_flush(s))

RECURSIVE write_all(_, _)
\* The default write_all of embedded_io_async::Write: write until the source
\* is used up; a write that returns Ok(0) panics.
write_all(self, src) ==
  IF src = <<>> THEN self
  ELSE Then(write(self, src),
            LAMBDA s : IF s.ret = 0 THEN Panic(s)
                       ELSE write_all(s, SubSeq(src, s.ret + 1, Len(src))))

\* --------------------------------------------------------- ChunkedBodyWriter

\* ChunkedBodyWriter::new(conn)
chunked_new ==
  [conn |-> <<>>, torn |-> <<>>, flushed |-> FALSE, io |-> NoFail, res |-> "ok", ret |-> 0,
   taken |-> 0]

\* Fault injection for C1: a streaming writer that sends no CRLF after the
\* payload.
chunked_write_chunk_without_footer(self, h, src) ==
  Then(conn_write_all(self, Slice(h.buf, 0, h.len)),
       LAMBDA s1 : conn_write_all(s1, src))

\* Fault injection for C24: a streaming writer that hands size line, payload
\* and CRLF to the transport in one write.
chunked_write_chunk_in_one_write(self, h, src) ==
  conn_write_all(self, Slice(h.buf, 0, h.len) \o src \o NEWLINE)

\* ChunkedBodyWriter::write_all once write_chunked_header has returned h.
chunked_write_chunk(self, h, src) ==
  Then(conn_write_all(self, Slice(h.buf, 0, h.len)),
       LAMBDA s1 : Then(conn_write_all(s1, src),
                        LAMBDA s2 : conn_write_all(s2, NEWLINE)))

\* ChunkedBodyWriter::write_all
chunked_write_all(self, src) ==
  IF Len(src) = 0 THEN self
  ELSE Let(write_chunked_header([i \in 1..(2 * UsizeBytes + 2) |-> 0], Len(src)),
           LAMBDA h : chunked_write_chunk(self, h, src))

\* ChunkedBodyWriter::write
chunked_write(self, src) ==
  Then(chunked_write_all(self, src), LAMBDA s : [s EXCEPT !.ret = Len(src)])

\* ChunkedBodyWriter::terminate
chunked_terminate(self) == conn_write_all(self, EMPTY_CHUNK)

\* ChunkedBodyWriter::flush
chunked_flush(self) == conn_flush(self)

\* ----------------------------------------------------------- BufferingReader

\* A body reader reads from a plain source, raw_body being the bytes the
\* source still holds, or from a BufferingReader (src/reader.rs).  Over a
\* BufferingReader the reader's record has two more fields, buffer and loaded
\* of struct ReadBuffer, and raw_body is what the BufferingReader still
\* delivers: buffer[..loaded], then the bytes the stream holds.
Buffered(self) == "loaded" \in DOMAIN self

\* BufferingReader::new(buffer, loaded, stream)
BufferingReader(buffer, loaded, stream) ==
  [buffer |-> buffer, loaded |-> loaded,
   raw_body |-> SubSeq(buffer, 1, loaded) \o stream]

\* The reader `reader`, made over the plain source raw_body.raw_body, put
\* over the BufferingReader raw_body.
OverBuffering(reader, raw_body) ==
  [buffer |-> raw_body.buffer, loaded |-> raw_body.loaded] @@ reader

\* ReadBuffer::consume(amt)
buffer_consume(self, amt) ==
  [self EXCEPT !.buffer = CopyWithin(@, Min(amt, self.loaded), self.loaded),
               !.loaded = @ - Min(amt, self.loaded)]

\* n bytes were read from the source (read, or read_exact by repeated read):
\* a BufferingReader hands over its loaded bytes first (ReadBuffer::read).
source_advance(self, n) == IF Buffered(self) THEN buffer_consume(self, n) ELSE self

\* The count of bytes one read of the source can hand over: the loaded bytes
\* while a BufferingReader has some, else what the stream has at hand.
source_avail(self, avail) ==
  IF Buffered(self) /\ self.loaded > 0 THEN self.loaded ELSE avail

\* BufferingReader::fill_buf on a plain connection: an empty buffer is
\* loaded by one read of the stream; the slice returned is buffer[..loaded].
buffering_fill_buf(self, avail) ==
  IF self.loaded = 0
  THEN [self EXCEPT !.buffer = CopyInto(@, 0, SubSeq(self.raw_body, 1,
                                 Min(Len(self.buffer), Min(avail, Len(self.raw_body))))),
                    !.loaded = Min(Len(self.buffer), Min(avail, Len(self.raw_body)))]
  ELSE self

\* BufferingReader::consume(amt) on a plain connection.
buffering_consume(self, amt) ==
  buffer_consume([self EXCEPT !.raw_body = SubSeq(@, Min(amt, self.loaded) + 1, Len(@))],
                 amt)

\* --------------------------------------------------------- ChunkedBodyReader

\* ChunkState
NoChunk == [tag |-> "NoChunk", n |-> 0]

NotEmpty(n) == [tag |-> "NotEmpty", n |-> n]

Empty == [tag |-> "Empty", n |-> 0]

\* ChunkState::consume: the state after, and the count consumed.
chunk_consume(state, amt) ==
  IF state.tag = "NotEmpty"
  THEN [state |-> NotEmpty(state.n - Min(amt, state.n)), consumed |-> Min(amt, state.n)]
  ELSE [state |-> state, consumed |-> 0]

\* ChunkState::len
chunk_len(state) == IF state.tag = "NotEmpty" THEN state.n ELSE 0

\* ChunkedBodyReader::new(raw_body): raw_body is what the transport still
\* holds, out the bytes handed to the caller so far.
reader_new(stream) ==
  [raw_body |-> stream, chunk_remaining |-> NoChunk, out |-> <<>>,
   res |-> "ok", err |-> "none", ret |-> 0]

Fail(self, kind) == [self EXCEPT !.res = "err", !.err = kind]

is_done(self) == self.chunk_remaining = Empty

\* raw_body.read_exact of n bytes: the bytes are taken, or the stream ends
\* (ReadExactError::UnexpectedEof, which the caller converts: read_size to
\* Error::Network(ErrorKind::ConnectionAborted) by way of Error::kind,
\* read_chunk_end to Error::ConnectionAborted).
raw_read_exact(self, n) ==
  IF Len(self.raw_body) < n
  THEN Fail(source_advance([self EXCEPT !.raw_body = <<>>], n), "UnexpectedEof")
  ELSE source_advance([self EXCEPT !.raw_body = SubSeq(@, n + 1, Len(@))], n)

\* hex::decode_to_slice of one digit: either case, -1 for any other byte.
HexDigit(c) ==
  IF c \in 48..57 THEN c - 48
  ELSE IF c \in 97..102 THEN c - 87
  ELSE IF c \in 65..70 THEN c - 55
  ELSE -1

RECURSIVE HexDecode(_)
\* u32::from_be_bytes of the decoded digits.
HexDecode(hex) ==
  IF hex = <<>> THEN 0
  ELSE 16 * HexDecode(SubSeq(hex, 1, Len(hex) - 1)) + HexDigit(hex[Len(hex)])

\* Fault injection for C32: a length of zero kept as a chunk of no bytes.
decode_chunk_length_never_empty(self, hex) ==
  IF \E i \in 1..Len(hex) : HexDigit(hex[i]) < 0 THEN Fail(self, "Codec")
  ELSE [self EXCEPT !.chunk_remaining = NotEmpty(HexDecode(hex))]

\* read_next_chunk_length from "Prepend hex with zeros" on, hex being the
\* digits padded to eight.
decode_chunk_length(self, hex) ==
  IF \E i \in 1..Len(hex) : HexDigit(hex[i]) < 0 THEN Fail(self, "Codec")
  ELSE [self EXCEPT !.chunk_remaining =
                       IF HexDecode(hex) = 0 THEN Empty ELSE NotEmpty(HexDecode(hex))]

\* hex[8 - hex_digits..].copy_from_slice(&header_buf[..hex_digits])
pad_hex(header_buf, hex_digits) ==
  [i \in 1..8 |-> IF i > 8 - hex_digits THEN header_buf[i - (8 - hex_digits)] ELSE 48]

\* read_next_chunk_length from `let hex_digits = total_read - 1` on: the range
\* hex[8 - hex_digits..] is out of bounds for more than eight digits.
decode_hex_digits(self, header_buf, hex_digits) ==
  IF hex_digits > 8 THEN [self EXCEPT !.res = "panic"]
  ELSE decode_chunk_length(self, pad_hex(header_buf, hex_digits))

RECURSIVE read_size(_, _, _)
\* The loop 'read_size of read_next_chunk_length, one byte per round, and what
\* follows it.
read_size(self, header_buf, total_read) ==
  IF self.raw_body = <<>> THEN Fail(self, "Network(ConnectionAborted)")
  ELSE IF Head(self.raw_body) # 10
  THEN IF total_read + 1 = Len(header_buf)
       THEN Fail(raw_read_exact(self, 1), "Codec")
       ELSE read_size(raw_read_exact(self, 1),
                      CopyInto(header_buf, total_read, <<Head(self.raw_body)>>),
                      total_read + 1)
  ELSE IF total_read = 0 \/ header_buf[total_read] # 13
  THEN Fail(raw_read_exact(self, 1), "Codec")
  ELSE decode_hex_digits(raw_read_exact(self, 1), header_buf, total_read - 1)

\* Fault injection for C33: a header buffer of eleven bytes.
read_next_chunk_length_eleven(self) == read_size(self, [i \in 1..(8 + 3) |-> 0], 0)

read_next_chunk_length(self) == read_size(self, [i \in 1..(8 + 2) |-> 0], 0)

\* Fault injection for C4: read_chunk_end that takes one byte only.
read_chunk_end_one_byte(self) == raw_read_exact(self, 1)

read_chunk_end(self) ==
  IF Len(self.raw_body) < 2 THEN Fail(raw_read_exact(self, 2), "ConnectionAborted")
  ELSE IF SubSeq(self.raw_body, 1, 2) # NEWLINE THEN Fail(raw_read_exact(self, 2), "Codec")
  ELSE raw_read_exact(self, 2)

\* handle_chunk_boundary from `if self.chunk_remaining == ChunkState::Empty` on.
boundary_final(self) ==
  Then(IF self.chunk_remaining = Empty THEN read_chunk_end(self) ELSE self,
       LAMBDA s : [s EXCEPT !.ret = chunk_len(s.chunk_remaining)])

\* handle_chunk_boundary: ret is the count of bytes left in the chunk.
handle_chunk_boundary(self) ==
  IF self.chunk_remaining = Empty THEN [self EXCEPT !.ret = 0]
  ELSE Then(IF self.chunk_remaining = NoChunk THEN read_next_chunk_length(self)
            ELSE IF self.chunk_remaining = NotEmpty(0)
            THEN Then(read_chunk_end(self), LAMBDA e : read_next_chunk_length(e))
            ELSE self,
            LAMBDA s : boundary_final(s))

\* read from the call of raw_body.read on, the transport handing over len bytes.
read_raw(self, len) ==
  source_advance([self EXCEPT !.out = @ \o SubSeq(self.raw_body, 1, len),
                              !.raw_body = SubSeq(@, len + 1, Len(@)),
                              !.chunk_remaining = chunk_consume(@, len).state,
                              !.ret = len],
                 len)

\* ChunkedBodyReader::read(buf) with buf.len() = buf_len; the transport has
\* `avail` bytes at hand (at least one, unless the stream has ended).
read(self, buf_len, avail) ==
  Then(handle_chunk_boundary(self),
       LAMBDA s : read_raw(s, Min(Min(buf_len, s.ret),
                                  Min(source_avail(s, avail), Len(s.raw_body)))))

\* Fault injection for C35: fill_buf that returns all the loaded bytes.
chunked_fill_buf_all_loaded(self, avail) ==
  Then(handle_chunk_boundary(self),
       LAMBDA s : IF s.ret = 0 THEN s
                  ELSE Let(buffering_fill_buf(s, avail),
                           LAMBDA f : [f EXCEPT !.ret = f.loaded]))

\* ChunkedBodyReader::fill_buf over a BufferingReader: ret is the length of
\* the slice returned, which is buffer[..ret].
chunked_fill_buf(self, avail) ==
  Then(handle_chunk_boundary(self),
       LAMBDA s : IF s.ret = 0 THEN s
                  ELSE Let(buffering_fill_buf(s, avail),
                           LAMBDA f : [f EXCEPT !.ret = Min(f.loaded, s.ret)]))

\* ChunkedBodyReader::consume(amt) over a BufferingReader.
chunked_consume(self, amt) ==
  buffering_consume([self EXCEPT !.chunk_remaining = chunk_consume(@, amt).state],
                    chunk_consume(self.chunk_remaining, amt).consumed)

\* ChunkedBodyReader::read_to_end after its loop.  front: the bytes of the
\* buffer the reader's slice has moved past; out: the slice returned.
chunked_read_to_end_result(self, front, len) ==
  IF ~is_done(self) THEN Fail(self, "BufferTooSmall")
  ELSE [self EXCEPT !.out = SubSeq(front \o self.buffer, 1, len), !.ret = len]

\* ChunkedBodyReader::read_to_end, one round of the loop from "How many bytes
\* were actually consumed from the preloaded buffer?" on.
chunked_read_to_end_move(self, was_loaded, consumed_from_buffer) ==
  [self EXCEPT !.loaded = was_loaded - consumed_from_buffer,
               !.buffer = SubSeq(@, consumed_from_buffer + 1, Len(@))]

RECURSIVE chunked_read_to_end_loop(_, _, _, _)
\* The loop of ChunkedBodyReader::read_to_end and what follows it.  A round
\* that reads nothing and leaves the reader not done is repeated without end
\* (res = "hang").
chunked_read_to_end_loop(self, front, len, avail) ==
  IF Len(self.buffer) = 0 THEN chunked_read_to_end_result(self, front, len)
  ELSE Then(chunked_fill_buf(self, avail),
            LAMBDA f :
              Let(chunked_consume([f EXCEPT !.loaded = Min(f.ret, f.loaded)], f.ret),
                  LAMBDA c :
                    IF is_done(c) THEN chunked_read_to_end_result(c, front, len + f.ret)
                    ELSE IF f.ret = 0 THEN [c EXCEPT !.res = "hang"]
                    ELSE chunked_read_to_end_loop(
                           chunked_read_to_end_move(c, f.loaded,
                                                    Min(f.ret, f.loaded) - c.loaded),
                           front \o SubSeq(c.buffer, 1, Min(f.ret, f.loaded) - c.loaded),
                           len + f.ret, avail)))

\* ChunkedBodyReader::read_to_end(self) over a BufferingReader.
chunked_read_to_end(self, avail) == chunked_read_to_end_loop(self, <<>>, 0, avail)

\* ----------------------------------------------------- FixedLengthBodyReader

\* FixedLengthBodyReader { raw_body, remaining }.  out: the bytes handed to the
\* caller so far.  overflow_checks: the build panics on integer overflow (a
\* debug build) or wraps (a release build).
fixed_new(stream, content_length, overflow_checks) ==
  [raw_body |-> stream, remaining |-> content_length, out |-> <<>>,
   res |-> "ok", err |-> "none", ret |-> 0, overflow_checks |-> overflow_checks]

\* self.remaining -= read.  A wrapped value is kept as its representative
\* below zero: the usize is that number plus 2^(8 * UsizeBytes).
fixed_subtract(self, count) ==
  IF count > self.remaining /\ self.overflow_checks THEN [self EXCEPT !.res = "panic"]
  ELSE [self EXCEPT !.remaining = @ - count]

\* FixedLengthBodyReader::read from the call of raw_body.read(buf) on, the
\* source handing over `count` bytes.
fixed_read_raw(self, count) ==
  fixed_subtract(source_advance([self EXCEPT !.out = @ \o SubSeq(self.raw_body, 1, count),
                                             !.raw_body = SubSeq(@, count + 1, Len(@)),
                                             !.ret = count],
                                count),
                 count)

\* FixedLengthBodyReader::read(buf) with buf.len() = buf_len; the source has
\* `avail` bytes at hand (at least one, unless it has ended).
fixed_read(self, buf_len, avail) ==
  IF self.remaining = 0 THEN [self EXCEPT !.ret = 0]
  ELSE fixed_read_raw(self, Min(buf_len, Min(source_avail(self, avail), Len(self.raw_body))))

\* FixedLengthBodyReader::fill_buf over a BufferingReader: ret is the length
\* of the slice returned, which is buffer[..ret].  A wrapped remaining is
\* larger than any length.
fixed_fill_buf(self, avail) ==
  IF self.remaining = 0 THEN [self EXCEPT !.ret = 0]
  ELSE Let(buffering_fill_buf(self, avail),
           LAMBDA f : IF f.loaded = 0 THEN Fail(f, "ConnectionAborted")
                      ELSE [f EXCEPT !.ret = IF f.remaining < 0 THEN f.loaded
                                             ELSE Min(f.loaded, f.remaining)])

\* FixedLengthBodyReader::consume(amt) over a BufferingReader.
fixed_consume(self, amt) ==
  IF self.remaining < 0
  THEN buffering_consume([self EXCEPT !.remaining = @ - amt], amt)
  ELSE buffering_consume([self EXCEPT !.remaining = @ - Min(amt, self.remaining)],
                         Min(amt, self.remaining))

\* ---------------------------------------------------------------- BodyReader

\* A source read directly (BodyReader::ToEnd(conn)): conn.read(buf) with
\* buf.len() = buf_len, the source having `avail` bytes at hand.
conn_new(stream) ==
  [raw_body |-> stream, out |-> <<>>, res |-> "ok", err |-> "none", ret |-> 0]

conn_read_count(self, count) ==
  source_advance([self EXCEPT !.out = @ \o SubSeq(self.raw_body, 1, count),
                              !.raw_body = SubSeq(@, count + 1, Len(@)),
                              !.ret = count],
                 count)

conn_read(self, buf_len, avail) ==
  conn_read_count(self, Min(buf_len, Min(source_avail(self, avail), Len(self.raw_body))))

\* enum BodyReader: the variant and, in r, the reader it wraps.  r.res, r.err
\* and r.ret hold the outcome of the last call.
BodyReader(variant, reader) == [variant |-> variant, r |-> reader]

body_is_done(self) ==
  CASE self.variant = "Empty" -> TRUE
    [] self.variant = "FixedLength" -> self.r.remaining = 0
    [] self.variant = "Chunked" -> is_done(self.r)
    [] self.variant = "ToEnd" -> FALSE

\* impl Read for BodyReader
body_read(self, buf_len, avail) ==
  CASE self.variant = "Empty" -> [self EXCEPT !.r.ret = 0]
    [] self.variant = "FixedLength" -> [self EXCEPT !.r = fixed_read(@, buf_len, avail)]
    [] self.variant = "Chunked" -> [self EXCEPT !.r = read(@, buf_len, avail)]
    [] self.variant = "ToEnd" -> [self EXCEPT !.r = conn_read(@, buf_len, avail)]

\* impl BufRead for BodyReader, fill_buf, over a BufferingReader: r.ret is the
\* length of the slice returned, which is r.buffer[..r.ret].
body_fill_buf(self, avail) ==
  CASE self.variant = "Empty" -> [self EXCEPT !.r.ret = 0]
    [] self.variant = "FixedLength" -> [self EXCEPT !.r = fixed_fill_buf(@, avail)]
    [] self.variant = "Chunked" -> [self EXCEPT !.r = chunked_fill_buf(@, avail)]
    [] self.variant = "ToEnd" ->
         [self EXCEPT !.r = Let(buffering_fill_buf(@, avail),
                                LAMBDA f : [f EXCEPT !.ret = f.loaded])]

\* impl BufRead for BodyReader, consume
body_consume(self, amt) ==
  CASE self.variant = "Empty" -> self
    [] self.variant = "FixedLength" -> [self EXCEPT !.r = fixed_consume(@, amt)]
    [] self.variant = "Chunked" -> [self EXCEPT !.r = chunked_consume(@, amt)]
    [] self.variant = "ToEnd" -> [self EXCEPT !.r = buffering_consume(@, amt)]

\* The caller takes the whole slice fill_buf returned (it is added to out)
\* and consumes it.
take_filled(self) ==
  IF self.r.res # "ok" THEN self
  ELSE body_consume([self EXCEPT !.r.out = @ \o SubSeq(self.r.buffer, 1, self.r.ret)],
                    self.r.ret)

\* read_to_end, the arm `BodyReader::ToEnd(reader) if len == buf.len()`: one
\* more byte is read into a local buffer, probe being the source after it.
\* The record returned has one more field, probed, to tell that this read
\* was made.
read_to_end_probe(self, len, probe) ==
  [probed |-> TRUE] @@
  (IF probe.ret = 1
   THEN [self EXCEPT !.r.raw_body = probe.raw_body, !.r.res = "err",
                     !.r.err = "BufferTooSmall", !.r.ret = 0]
   ELSE [self EXCEPT !.r.raw_body = probe.raw_body, !.r.ret = len])

Probed(self) == "probed" \in DOMAIN self

\* Fault injection for C38: the probe read is made whenever the reader is not
\* done.
read_to_end_check_any_len(self, buf_len, len, avail) ==
  IF body_is_done(self) THEN [self EXCEPT !.r.ret = len]
  ELSE IF self.variant = "ToEnd"
  THEN read_to_end_probe(self, len, conn_read(self.r, 1, avail))
  ELSE [self EXCEPT !.r.res = "err", !.r.err = "BufferTooSmall", !.r.ret = 0]

\* read_to_end from `if !self.is_done()` on.
read_to_end_check(self, buf_len, len, avail) ==
  IF body_is_done(self) THEN [self EXCEPT !.r.ret = len]
  ELSE IF self.variant = "ToEnd"
  THEN IF len = buf_len THEN read_to_end_probe(self, len, conn_read(self.r, 1, avail))
       ELSE [self EXCEPT !.r.ret = len]
  ELSE [self EXCEPT !.r.res = "err", !.r.err = "BufferTooSmall", !.r.ret = 0]

RECURSIVE read_to_end_loop(_, _, _, _)
\* The loop `while len < buf.len()` of read_to_end, and what follows it.
read_to_end_loop(self, buf_len, len, avail) ==
  IF len < buf_len
  THEN Let(body_read(self, buf_len - len, avail),
           LAMBDA s : IF s.r.res # "ok" THEN s
                      ELSE IF s.r.ret = 0 THEN read_to_end_check(s, buf_len, len, avail)
                      ELSE read_to_end_loop(s, buf_len, len + s.r.ret, avail))
  ELSE read_to_end_check(self, buf_len, len, avail)

\* BodyReader::read_to_end(buf) with buf.len() = buf_len; the source hands
\* over at most `avail` bytes at a time.  r.ret is the length returned.
body_read_to_end(self, buf_len, avail) == read_to_end_loop(self, buf_len, 0, avail)

\* ------------------------------------------------------------------ Response

\* Option<usize>
None == [some |-> FALSE, n |-> 0]
Some(n) == [some |-> TRUE, n |-> n]

\* What the server put in the response header, as httparse and the header
\* value parsers report it: code, the Content-Length value (content_length_ok
\* is FALSE when its text is not a usize), whether Transfer-Encoding lists
\* chunked, and valid, FALSE when httparse rejects the header.
Header(code, content_length, chunked, content_length_ok, valid) ==
  [code |-> code, content_length |-> content_length, chunked |-> chunked,
   content_length_ok |-> content_length_ok, valid |-> valid]

\* The header's bytes on the wire: a status line and header lines of
\* head_len - 4 bytes with no empty line in them, then the empty line.
HeadBytes(head_len) == [i \in 1..(head_len - 4) |-> 104] \o NEWLINE \o NEWLINE

RECURSIVE header_end(_, _, _)
\* httparse::Response::parse(&header_buf[..pos]) on a valid header: the
\* count of bytes through the first empty line (Status::Complete), from
\* offset k on, or 0 (Status::Partial).
header_end(header_buf, pos, k) ==
  IF k + 4 > pos THEN 0
  ELSE IF SubSeq(header_buf, k + 1, k + 4) = NEWLINE \o NEWLINE THEN k + 4
  ELSE header_end(header_buf, pos, k + 1)

StatusIsInformational(code) == code >= 100 /\ code < 200
NoContent == 204

\* Response::read failed with the error kind.
ResponseErr(self, kind) == [self EXCEPT !.res = "err", !.err = kind]

\* Fault injection for C18: the count of body bytes read is not compared with
\* Content-Length.
response_check_body_read_skipped(self) ==
  [self EXCEPT !.raw_body_read = self.pos - self.header_len]

\* Response::read from "The number of bytes that we have read into the body
\* part of the response" on.
response_check_body_read(self) ==
  IF self.content_length.some /\ self.content_length.n < self.pos - self.header_len
  THEN ResponseErr([self EXCEPT !.raw_body_read = self.pos - self.header_len], "Codec")
  ELSE [self EXCEPT !.raw_body_read = self.pos - self.header_len]

\* Response::read, the rule for 1xx and 204.
response_no_content(self) ==
  IF StatusIsInformational(self.status) \/ self.status = NoContent
  THEN IF (IF self.content_length.some THEN self.content_length.n ELSE 0) # 0
       THEN ResponseErr(self, "Codec")
       ELSE [self EXCEPT !.content_length = Some(0)]
  ELSE self

\* Response::read from "Parse status and known headers" to the end of the
\* loop over the headers.
response_parse_headers(self, header) ==
  IF ~header.content_length_ok THEN ResponseErr(self, "Codec")
  ELSE [self EXCEPT !.status = header.code,
                    !.content_length = header.content_length,
                    !.transfer_encoding_chunked = header.chunked]

\* Response::read after its loop.
response_after_loop(self, header) ==
  IF self.header_len = 0 THEN ResponseErr(self, "BufferTooSmall")
  ELSE Then(response_parse_headers(self, header),
            LAMBDA s : Then(response_no_content(s),
                            LAMBDA c : response_check_body_read(c)))

\* Fault injection for C16: the loop goes on after the header is complete.
response_read_parse_without_break(self, header, n) ==
  [self EXCEPT !.pos = @ + n, !.reads = @ + 1, !.before_last = self.pos]

\* One round of the loop of Response::read after conn.read returned n > 0.
response_read_parse(self, header, n) ==
  IF ~header.valid THEN ResponseErr([self EXCEPT !.pos = @ + n, !.reads = @ + 1], "Codec")
  ELSE [self EXCEPT !.pos = @ + n, !.reads = @ + 1, !.before_last = self.pos,
                    !.header_len = header_end(self.header_buf, self.pos + n, 0)]

RECURSIVE response_read_loop(_, _, _)
\* The loop `while pos < header_buf.len()` of Response::read and what follows
\* it.  conn.read hands over at most `avail` bytes.
response_read_loop(self, header, avail) ==
  IF self.pos < Len(self.header_buf) /\ self.header_len = 0
  THEN Let(Min(Len(self.header_buf) - self.pos, Min(avail, Len(self.conn))),
           LAMBDA n :
             IF n = 0 THEN ResponseErr([self EXCEPT !.reads = @ + 1], "ConnectionAborted")
             ELSE Then(response_read_parse(
                         [self EXCEPT !.header_buf = CopyInto(@, self.pos, SubSeq(self.conn, 1, n)),
                                      !.conn = SubSeq(@, n + 1, Len(@))],
                         header, n),
                       LAMBDA s : response_read_loop(s, header, avail)))
  ELSE response_after_loop(self, header)

\* Response::read(conn, method, header_buf) with header_buf.len() = buf_len;
\* the buffer holds zeros at first.  conn: the bytes the source still holds.
\* pos: the count of bytes read; reads: the count of conn.read calls;
\* before_last: pos before the last of them.
response_read(conn, header, method, buf_len, avail) ==
  response_read_loop(
    [conn |-> conn, method |-> method, status |-> 0, content_length |-> None,
     transfer_encoding_chunked |-> FALSE, header_buf |-> [i \in 1..buf_len |-> 0],
     header_len |-> 0, raw_body_read |-> 0, pos |-> 0, reads |-> 0, before_last |-> 0,
     res |-> "ok", err |-> "none"],
    header, avail)

\* enum ReaderHint
ReaderHint(variant, content_length) == [variant |-> variant, content_length |-> content_length]

\* Fault injection for C19: chunked is looked at before Content-Length.
body_reader_hint_chunked_first(self) ==
  IF self.method = "HEAD" THEN ReaderHint("Empty", 0)
  ELSE IF self.transfer_encoding_chunked THEN ReaderHint("Chunked", 0)
  ELSE IF self.content_length.some THEN ReaderHint("FixedLength", self.content_length.n)
  ELSE ReaderHint("ToEnd", 0)

\* Response::body, the choice of the reader hint.
body_reader_hint(self) ==
  IF self.method = "HEAD" THEN ReaderHint("Empty", 0)
  ELSE IF self.content_length.some THEN ReaderHint("FixedLength", self.content_length.n)
  ELSE IF self.transfer_encoding_chunked THEN ReaderHint("Chunked", 0)
  ELSE ReaderHint("ToEnd", 0)

\* Fault injection for C15: the body bytes read with the header are not moved
\* to the front of the buffer.
response_body_without_move(self) ==
  [conn |-> self.conn, reader_hint |-> body_reader_hint(self),
   body_buf |-> self.header_buf, raw_body_read |-> self.raw_body_read]

\* Response::body: struct ResponseBody.
response_body(self) ==
  [conn |-> self.conn, reader_hint |-> body_reader_hint(self),
   body_buf |-> CopyWithin(self.header_buf, self.header_len,
                           self.header_len + self.raw_body_read),
   raw_body_read |-> self.raw_body_read]

\* ReaderHint::reader(raw_body), raw_body a BufferingReader.  The Empty
\* reader has no source; r keeps raw_body to show what is left unread.
hint_reader(hint, raw_body, overflow_checks) ==
  CASE hint.variant = "Empty" ->
         BodyReader("Empty", OverBuffering(conn_new(raw_body.raw_body), raw_body))
    [] hint.variant = "FixedLength" ->
         BodyReader("FixedLength",
                    OverBuffering(fixed_new(raw_body.raw_body, hint.content_length,
                                            overflow_checks), raw_body))
    [] hint.variant = "Chunked" ->
         BodyReader("Chunked", OverBuffering(reader_new(raw_body.raw_body), raw_body))
    [] hint.variant = "ToEnd" ->
         BodyReader("ToEnd", OverBuffering(conn_new(raw_body.raw_body), raw_body))

\* ResponseBody::reader
response_body_reader(self, overflow_checks) ==
  hint_reader(self.reader_hint,
              BufferingReader(self.body_buf, self.raw_body_read, self.conn),
              overflow_checks)

\* ResponseBody::read_to_end, the arms FixedLength and ToEnd after
\* BodyReader::read_to_end returned: Ok(&mut self.body_buf[..read + self.raw_body_read]).
\* The bytes read were written to body_buf[raw_body_read..].
body_buf_result(self, reader) ==
  IF reader.r.res # "ok" THEN reader
  ELSE [reader EXCEPT !.r.out = SubSeq(CopyInto(self.body_buf, self.raw_body_read, @),
                                       1, reader.r.ret + self.raw_body_read),
                      !.r.ret = reader.r.ret + self.raw_body_read]

\* ResponseBody::read_to_end, the arm FixedLength: content_length -
\* self.raw_body_read panics on underflow in a build with overflow checks and
\* wraps in one without (kept as the number below zero).
fixed_length_read_to_end(self, avail, overflow_checks) ==
  IF self.reader_hint.content_length < self.raw_body_read /\ overflow_checks
  THEN BodyReader("FixedLength",
                  Panic(fixed_new(self.conn, self.reader_hint.content_length, overflow_checks)))
  ELSE body_buf_result(self,
         body_read_to_end(
           BodyReader("FixedLength",
                      fixed_new(self.conn, self.reader_hint.content_length - self.raw_body_read,
                                overflow_checks)),
           Len(self.body_buf) - self.raw_body_read, avail))

\* ResponseBody::read_to_end: r.out is the slice returned.
response_body_read_to_end(self, avail, overflow_checks) ==
  CASE self.reader_hint.variant = "Empty" -> BodyReader("Empty", conn_new(self.conn))
    [] self.reader_hint.variant = "FixedLength" ->
         fixed_length_read_to_end(self, avail, overflow_checks)
    [] self.reader_hint.variant = "Chunked" ->
         BodyReader("Chunked",
                    chunked_read_to_end(
                      OverBuffering(reader_new(BufferingReader(self.body_buf, self.raw_body_read,
                                                               self.conn).raw_body),
                                    BufferingReader(self.body_buf, self.raw_body_read, self.conn)),
                      avail))
    [] self.reader_hint.variant = "ToEnd" ->
         body_buf_result(self,
           body_read_to_end(BodyReader("ToEnd", conn_new(self.conn)),
                            Len(self.body_buf) - self.raw_body_read, avail))

\* ---------------------------------------------------------- transport write

\* conn.write(data): the transport takes the first `accept` bytes (at least
\* one of a slice that is not empty), or fails as conn_write_all does.
conn_write(self, data, accept) ==
  IF data = <<>> THEN [self EXCEPT !.ret = 0]
  ELSE IF self.io.ok_calls = 0
  THEN [self EXCEPT !.flushed = FALSE, !.res = "err"]
  ELSE [self EXCEPT !.conn = Append(@, SubSeq(data, 1, accept)),
                    !.flushed = FALSE,
                    !.io.ok_calls = IF @ > 0 THEN @ - 1 ELSE @,
                    !.ret = accept]

\* ------------------------------------------------------------ HttpConnection

\* An HttpConnection on a transport that behaves as io says.  kind: the
\* variant; tx, tx_pos: buf and pos of the BufferedWrite of PlainBuffered;
\* short: the transport takes one byte less than it is offered of a write of
\* two bytes or more; buf to fin: the BufferingChunkedBodyWriter that
\* write_request builds on the parts of the BufferedWrite; err: the error a
\* failed call returned; writer, written: the body writer of write_request
\* and the count of a FixedBodyWriter; head, rx, read_calls, at_read: see
\* write_request and send_read.
http_connection(kind, tx, short, io) ==
  [kind |-> kind, tx |-> tx, tx_pos |-> 0, short |-> short, err |-> "none",
   buf |-> <<>>, header_pos |-> 0, pos |-> 0, allocated_header |-> 0,
   terminated |-> FALSE, fin |-> <<>>,
   writer |-> "none", written |-> 0, head |-> <<>>,
   rx |-> [res |-> "none"], read_calls |-> 0, at_read |-> [flushed |-> FALSE]]
  @@ [chunked_new EXCEPT !.io = io]

\* inner.write(data) of BufferedWrite
inner_write(self, data) ==
  conn_write(self, data, IF self.short /\ Len(data) > 1 THEN Len(data) - 1 ELSE Len(data))

\* BufferedWrite::write from "if self.pos == self.buf.len()" on.
buffered_write_full(self) ==
  IF self.tx_pos = Len(self.tx)
  THEN Then(inner_write(self, self.tx),
            LAMBDA s : IF s.ret < s.tx_pos
                       THEN [s EXCEPT !.tx = CopyWithin(@, s.ret, s.tx_pos), !.tx_pos = @ - s.ret]
                       ELSE [s EXCEPT !.tx_pos = 0])
  ELSE self

\* BufferedWrite::write from "let buffered" on.
buffered_write_append(self, data, buffered) ==
  Then(buffered_write_full([self EXCEPT !.tx = CopyInto(@, self.tx_pos, SubSeq(data, 1, buffered)),
                                        !.tx_pos = @ + buffered]),
       LAMBDA s : [s EXCEPT !.ret = buffered])

\* Fault injection for C39: the fast path taken whatever the buffer holds.
buffered_write_past_buffer(self, data) ==
  IF data = <<>> THEN [self EXCEPT !.ret = 0]
  ELSE IF Len(data) >= Len(self.tx) THEN inner_write(self, data)
  ELSE buffered_write_append(self, data, Min(Len(data), Len(self.tx) - self.tx_pos))

\* BufferedWrite::write
buffered_write(self, data) ==
  IF data = <<>> THEN [self EXCEPT !.ret = 0]
  ELSE IF self.tx_pos = 0 /\ Len(data) >= Len(self.tx) THEN inner_write(self, data)
  ELSE buffered_write_append(self, data, Min(Len(data), Len(self.tx) - self.tx_pos))

RECURSIVE buffered_write_all(_, _)
\* The default write_all of embedded_io_async::Write on a BufferedWrite.
buffered_write_all(self, data) ==
  IF data = <<>> THEN self
  ELSE Then(buffered_write(self, data),
            LAMBDA s : IF s.ret = 0 THEN Panic(s)
                       ELSE buffered_write_all(s, SubSeq(data, s.ret + 1, Len(data))))

\* BufferedWrite::flush
buffered_flush(self) ==
  Then(IF self.tx_pos > 0
       THEN Then(conn_write_all(self, Slice(self.tx, 0, self.tx_pos)),
                 LAMBDA s : [s EXCEPT !.tx_pos = 0])
       ELSE self,
       LAMBDA s : conn_flush(s))

\* impl Write for HttpConnection: write.  accept: the count of bytes the
\* transport of a Plain or Tls connection takes.
connection_write(self, data, accept) ==
  IF self.kind = "PlainBuffered" THEN buffered_write(self, data)
  ELSE conn_write(self, data, accept)

\* impl Write for HttpConnection: write_all
connection_write_all(self, data) ==
  IF self.kind = "PlainBuffered" THEN buffered_write_all(self, data)
  ELSE conn_write_all(self, data)

\* impl Write for HttpConnection: flush
connection_flush(self) ==
  IF self.kind = "PlainBuffered" THEN buffered_flush(self) ELSE conn_flush(self)

\* ----------------------------------------------------------- FixedBodyWriter

\* FixedBodyWriter::new(conn): written is the field self.1, conn and the
\* fields with it are the connection self.0.
fixed_body_new(conn) == [written |-> 0] @@ conn

\* FixedBodyWriter::write
fixed_body_write(self, buf, accept) ==
  Then(connection_write(self, buf, accept), LAMBDA s : [s EXCEPT !.written = @ + s.ret])

\* FixedBodyWriter::write_all
fixed_body_write_all(self, buf) ==
  Then(connection_write_all(self, buf), LAMBDA s : [s EXCEPT !.written = @ + Len(buf)])

\* FixedBodyWriter::flush
fixed_body_flush(self) == connection_flush(self)

\* FixedBodyWriter::written
fixed_body_written(self) == self.written

\* ------------------------------------------------------------ write_request

\* The request header on the wire, in the pieces write_header writes: the
\* request line, a header line and the empty line.
HeaderParts == << <<71, 32, 47, 13, 10>>, <<72, 58, 104, 13, 10>>, <<13, 10>> >>

RECURSIVE write_parts(_, _)
\* Request::write_header: one write_all for each piece, `?` after each.
write_parts(conn, parts) ==
  IF parts = <<>> THEN conn
  ELSE Then(conn_write_all(conn, Head(parts)), LAMBDA c : write_parts(c, Tail(parts)))

\* write_request up to the call of body.write, for a body with len() =
\* Some(len): result is what write_request returns, "none" while body.write
\* has still to run.
write_request_begin(conn, len) ==
  Let(fixed_body_new(write_parts(conn, HeaderParts)),
      LAMBDA w : [len |-> len,
                  result |-> IF w.res # "ok" THEN "Network"
                             ELSE IF len = 0 THEN "Ok" ELSE "none"] @@ w)

\* Fault injection for C20: the count written is not compared with len.
write_request_end_unchecked(self, body_ok) ==
  [self EXCEPT !.result = IF ~body_ok THEN "Network" ELSE "Ok"]

\* write_request after body.write has returned Ok(()) (body_ok) or Err.
write_request_end(self, body_ok) ==
  [self EXCEPT !.result = IF ~body_ok THEN "Network"
                          ELSE IF fixed_body_written(self) # self.len
                          THEN "IncorrectBodyWritten"
                          ELSE "Ok"]

\* ------------------------------------------------------------------ Request

\* The string literals of request.rs and headers.rs, in ASCII: the method
\* names, " ", "/", " HTTP/1.1\r\n", "Authorization: Basic ", the header names,
\* "chunked", ": " and the content types.
Text ==
  [GET |-> <<71, 69, 84>>,
   PUT |-> <<80, 85, 84>>,
   POST |-> <<80, 79, 83, 84>>,
   DELETE |-> <<68, 69, 76, 69, 84, 69>>,
   HEAD |-> <<72, 69, 65, 68>>,
   SP |-> <<32>>,
   SLASH |-> <<47>>,
   VERSION |-> <<32, 72, 84, 84, 80, 47, 49, 46, 49, 13, 10>>,
   AUTH |-> <<65, 117, 116, 104, 111, 114, 105, 122, 97, 116, 105, 111, 110, 58, 32, 66, 97, 115, 105, 99, 32>>,
   HOST |-> <<72, 111, 115, 116>>,
   CONTENT_TYPE |-> <<67, 111, 110, 116, 101, 110, 116, 45, 84, 121, 112, 101>>,
   CONTENT_LENGTH |-> <<67, 111, 110, 116, 101, 110, 116, 45, 76, 101, 110, 103, 116, 104>>,
   TRANSFER_ENCODING |-> <<84, 114, 97, 110, 115, 102, 101, 114, 45, 69, 110, 99, 111, 100, 105, 110, 103>>,
   CHUNKED |-> <<99, 104, 117, 110, 107, 101, 100>>,
   COLON |-> <<58, 32>>,
   TEXT_HTML |-> <<116, 101, 120, 116, 47, 104, 116, 109, 108>>,
   TEXT_PLAIN |-> <<116, 101, 120, 116, 47, 112, 108, 97, 105, 110>>,
   JSON |-> <<97, 112, 112, 108, 105, 99, 97, 116, 105, 111, 110, 47, 106, 115, 111, 110>>,
   CBOR |-> <<97, 112, 112, 108, 105, 99, 97, 116, 105, 111, 110, 47, 99, 98, 111, 114>>,
   OCTET_STREAM |-> <<97, 112, 112, 108, 105, 99, 97, 116, 105, 111, 110, 47, 111, 99, 116, 101, 116, 45, 115, 116, 114, 101, 97, 109>>]

\* Method::as_str
method_as_str(method) ==
  CASE method = "POST" -> Text.POST
    [] method = "PUT" -> Text.PUT
    [] method = "GET" -> Text.GET
    [] method = "DELETE" -> Text.DELETE
    [] method = "HEAD" -> Text.HEAD

\* ContentType::as_str
content_type_as_str(content_type) ==
  CASE content_type = "TextHtml" -> Text.TEXT_HTML
    [] content_type = "TextPlain" -> Text.TEXT_PLAIN
    [] content_type = "ApplicationJson" -> Text.JSON
    [] content_type = "ApplicationCbor" -> Text.CBOR
    [] content_type = "ApplicationOctetStream" -> Text.OCTET_STREAM

RECURSIVE Decimal(_)
\* write!(s, "{}", len)
Decimal(n) == IF n < 10 THEN <<48 + n>> ELSE Append(Decimal(n \div 10), 48 + (n % 10))

RECURSIVE trim_end_matches(_, _)
\* str::trim_end_matches(c)
trim_end_matches(s, c) ==
  IF s # <<>> /\ s[Len(s)] = c THEN trim_end_matches(SubSeq(s, 1, Len(s) - 1), c) ELSE s

\* An Option that is None, and one that holds v.
Absent == [some |-> FALSE]
Present(v) == [some |-> TRUE, v |-> v]

\* The connection a request is written to: a Plain one.
request_conn(io) == http_connection("Plain", <<>>, FALSE, io)

\* A call on c returned Err(kind).
Failed(c, kind) == [c EXCEPT !.res = "err", !.err = kind]

\* write_str(c, data): c.write_all(data.as_bytes()), its error as
\* Error::Network.
write_str(c, data) ==
  Let(connection_write_all(c, data),
      LAMBDA s : IF s.res = "err" THEN Failed(s, "Network") ELSE s)

\* write_header(c, key, value) of request.rs
write_header(c, key, value) ==
  Then(write_str(c, key),
       LAMBDA c1 : Then(write_str(c1, Text.COLON),
       LAMBDA c2 : Then(write_str(c2, value),
       LAMBDA c3 : write_str(c3, NEWLINE))))

\* Request::write_header: the request line.
write_request_line(self, c) ==
  Then(write_str(c, method_as_str(self.method)),
       LAMBDA c1 : Then(write_str(c1, Text.SP),
       LAMBDA c2 : Then(IF self.base_path.some
                        THEN Then(write_str(c2, trim_end_matches(self.base_path.v, 47)),
                                  LAMBDA b : IF self.path = <<>> \/ self.path[1] # 47
                                             THEN write_str(b, Text.SLASH) ELSE b)
                        ELSE c2,
       LAMBDA c3 : Then(write_str(c3, self.path),
       LAMBDA c4 : write_str(c4, Text.VERSION)))))

\* Request::write_header: the Authorization header.  auth.v.fits: the
\* user name, ":" and the password fit the String<128>; auth.v.authz: their
\* base64 encoding.
write_authorization(self, c) ==
  IF ~self.auth.some THEN c
  ELSE IF ~self.auth.v.fits THEN Failed(c, "Codec")
  ELSE Then(write_str(c, Text.AUTH),
            LAMBDA c1 : Then(write_str(c1, self.auth.v.authz),
            LAMBDA c2 : write_str(c2, NEWLINE)))

\* Request::write_header: Content-Length or Transfer-Encoding, as the body's
\* len() says.
write_body_header(self, c) ==
  IF ~self.body.some THEN c
  ELSE IF self.body.v.len.some
  THEN write_header(c, Text.CONTENT_LENGTH, Decimal(self.body.v.len.n))
  ELSE write_header(c, Text.TRANSFER_ENCODING, Text.CHUNKED)

RECURSIVE write_extra_headers(_, _)
\* Request::write_header: for (header, value) in extra_headers.iter()
write_extra_headers(c, extra_headers) ==
  IF extra_headers = <<>> THEN c
  ELSE Then(write_header(c, Head(extra_headers)[1], Head(extra_headers)[2]),
            LAMBDA c1 : write_extra_headers(c1, Tail(extra_headers)))

\* Fault injection for C25: the Host header is written after Content-Type.
request_write_header_host_late(self, c) ==
  Then(write_request_line(self, c),
       LAMBDA c1 : Then(write_authorization(self, c1),
       LAMBDA c2 : Then(IF self.content_type.some
                        THEN write_header(c2, Text.CONTENT_TYPE,
                                          content_type_as_str(self.content_type.v))
                        ELSE c2,
       LAMBDA c3 : Then(IF self.host.some THEN write_header(c3, Text.HOST, self.host.v) ELSE c3,
       LAMBDA c4 : Then(write_body_header(self, c4),
       LAMBDA c5 : Then(IF self.extra_headers.some
                        THEN write_extra_headers(c5, self.extra_headers.v) ELSE c5,
       LAMBDA c6 : write_str(c6, NEWLINE)))))))

\* Request::write_header
request_write_header(self, c) ==
  Then(write_request_line(self, c),
       LAMBDA c1 : Then(write_authorization(self, c1),
       LAMBDA c2 : Then(IF self.host.some THEN write_header(c2, Text.HOST, self.host.v) ELSE c2,
       LAMBDA c3 : Then(IF self.content_type.some
                        THEN write_header(c3, Text.CONTENT_TYPE,
                                          content_type_as_str(self.content_type.v))
                        ELSE c3,
       LAMBDA c4 : Then(write_body_header(self, c4),
       LAMBDA c5 : Then(IF self.extra_headers.some
                        THEN write_extra_headers(c5, self.extra_headers.v) ELSE c5,
       LAMBDA c6 : write_str(c6, NEWLINE)))))))

\* ------------------------------------------------------ HttpConnection::send

\* A call on the connection failed: `?` turns its error into Error::Network.
Network(c) == IF c.res = "err" /\ c.err = "none" THEN Failed(c, "Network") ELSE c

\* Every byte written to the connection so far: those the transport has
\* taken and those the BufferedWrite holds.
Stream(c) == Wire(c) \o Slice(c.tx, 0, c.tx_pos)

\* writer.write_all(data) of the body writer write_request has built.
writer_write_all(w, data) ==
  CASE w.writer = "Fixed" -> fixed_body_write_all(w, data)
    [] w.writer = "Chunked" -> chunked_write_all(w, data)
    [] w.writer = "BufferingChunked" -> write_all(w, data)

RECURSIVE body_write(_, _, _)
\* RequestBody::write of a body that hands its bytes to the writer in
\* write_all calls of the lengths `pieces`; from: the offset in the body of
\* the next byte.
body_write(w, pieces, from) ==
  IF pieces = <<>> THEN w
  ELSE Then(writer_write_all(w, BodySlice(from, Head(pieces))),
            LAMBDA s : body_write(s, Tail(pieces), from + Head(pieces)))

\* write_request, the arm Some(len): FixedBodyWriter::new(self), body.write
\* and the comparison of written() with len.
write_request_fixed(self, body) ==
  Let(body_write([fixed_body_new(self) EXCEPT !.writer = "Fixed"], body.pieces, 0),
      LAMBDA w : IF w.res = "panic" THEN w
                 ELSE Let(write_request_end([len |-> body.len.n, result |-> "none"] @@ w,
                                            w.res = "ok"),
                          LAMBDA e : IF e.result = "Ok" THEN w ELSE Failed(w, e.result)))

\* write_request, the arms None of Plain and Tls: ChunkedBodyWriter::new(c),
\* body.write and terminate.
write_request_chunked(self, body) ==
  Then(Network(body_write([self EXCEPT !.writer = "Chunked"], body.pieces, 0)),
       LAMBDA w : Network(chunked_terminate(w)))

\* buffered.split(): the buffer and the count of bytes in it that have not
\* been written to the transport.
buffered_split(self) == [buf |-> self.tx, unwritten |-> self.tx_pos]

\* BufferingChunkedBodyWriter::new_with_data(conn, buf, unwritten) on the
\* parts of the BufferedWrite, with its two assertions.
split_new_with_data(self, parts) ==
  IF ~new_with_data_accepts(Len(parts.buf), parts.unwritten) THEN Panic(self)
  ELSE Let(new_with_data(parts.buf, parts.unwritten),
           LAMBDA w : [self EXCEPT !.writer = "BufferingChunked",
                                   !.buf = w.buf, !.header_pos = w.header_pos, !.pos = w.pos,
                                   !.allocated_header = w.allocated_header,
                                   !.terminated = w.terminated, !.fin = w.fin])

\* buffered.clear(): the buffer, which the writer has written to, holds
\* nothing that has still to be written.
buffered_clear(self) == [self EXCEPT !.tx = self.buf, !.tx_pos = 0]

\* write_request, the arm None of PlainBuffered.
write_request_buffered(self, body) ==
  Then(split_new_with_data(self, buffered_split(self)),
       LAMBDA w0 : Then(Network(body_write(w0, body.pieces, 0)),
       LAMBDA w : Then(Network(terminate(w)),
       LAMBDA t : buffered_clear(t))))

\* write_request from `if let Some(body)` on.
write_request_body(self, request) ==
  IF ~request.body.some THEN self
  ELSE IF request.body.v.len.some
  THEN IF request.body.v.len.n = 0 THEN self
       ELSE write_request_fixed(self, request.body.v)
  ELSE IF self.kind = "PlainBuffered" THEN write_request_buffered(self, request.body.v)
  ELSE write_request_chunked(self, request.body.v)

\* HttpConnection::write_request.  head: the bytes written when write_header
\* has returned.
write_request(self, request) ==
  Then(request_write_header(request, self),
       LAMBDA h : write_request_body([h EXCEPT !.head = Stream(h)], request))

\* Response::read(self, method, rx_buf) on the connection.  server: the bytes
\* the server sends, their header as httparse reads it, and the length of
\* rx_buf.  at_read: the connection when the first conn.read is called;
\* read_calls: the count of conn.read calls on the connection.
send_read(self, method, server) ==
  Let(response_read(server.bytes, server.header, method, server.buf_len, AllAtHand),
      LAMBDA r : [self EXCEPT !.rx = r,
                              !.read_calls = @ + r.reads,
                              !.at_read = [flushed |-> self.flushed, wire |-> Wire(self),
                                           pending |-> self.tx_pos],
                              !.res = r.res, !.err = r.err])

\* Fault injection for C22: send that does not flush before it reads.
send_without_flush(self, request, server) ==
  Then(write_request(self, request),
       LAMBDA w : send_read(w, request.method, server))

\* HttpConnection::send
send(self, request, server) ==
  Then(write_request(self, request),
       LAMBDA w : Then(Network(connection_flush(w)),
       LAMBDA f : send_read(f, request.method, server)))

\* What a call returned: Ok, the kind of its error, or a panic.
ResultOf(c) == IF c.res = "ok" THEN "Ok" ELSE IF c.res = "err" THEN c.err ELSE "panic"

\* HttpRequestHandle { conn, request }
http_request_handle(conn, request) == [conn |-> conn, request |-> Present(request)]

\* Fault injection for C23: a handle that keeps its request.
handle_send_keeping_request(self, server) ==
  IF ~self.request.some THEN [result |-> "AlreadySent"] @@ self
  ELSE Let(Then(write_request(self.conn, self.request.v),
           LAMBDA w : Then(Network(connection_flush(w)),
           LAMBDA f : send_read(f, self.request.v.method, server))),
           LAMBDA c : [result |-> ResultOf(c)] @@ [self EXCEPT !.conn = c])

\* HttpRequestHandle::send
handle_send(self, server) ==
  IF ~self.request.some THEN [result |-> "AlreadySent"] @@ self
  ELSE Let(Then(write_request(self.conn, self.request.v),
           LAMBDA w : Then(Network(connection_flush(w)),
           LAMBDA f : send_read(f, self.request.v.method, server))),
           LAMBDA c : [result |-> ResultOf(c)] @@ [self EXCEPT !.conn = c, !.request = Absent])

\* --------------------------------------------------------------- StatusCode

\* StatusCode(pub u16): the values of a status code.
U16Max == 65535

\* (lo..=hi).contains(&x)
RangeInclusiveContains(lo, hi, x) == lo <= x /\ x <= hi

\* Fault injection for C26: the range of is_successful without its upper end.
is_successful_exclusive(code) == 200 <= code /\ code < 299

is_informational(code) == RangeInclusiveContains(100, 199, code)
is_successful(code) == RangeInclusiveContains(200, 299, code)
is_redirection(code) == RangeInclusiveContains(300, 399, code)
is_client_error(code) == RangeInclusiveContains(400, 499, code)
is_server_error(code) == RangeInclusiveContains(500, 599, code)

\* enum Status: the variants by their discriminants, Unknown = 0.
StatusUnknown == 0
KnownStatus ==
  {200, 201, 202, 204, 206, 301, 302, 303, 304, 307, 308, 400, 401, 403, 404, 405, 409,
   415, 416, 429, 500, 502, 503, 504}

\* Status::from(StatusCode(code))
status_from(code) == IF code \in KnownStatus THEN code ELSE StatusUnknown

\* The five predicates, of a StatusCode and (`*self as u16`) of a Status.
status_classes(code) ==
  [informational |-> is_informational(code),
   successful |-> is_successful(code),
   redirection |-> is_redirection(code),
   client_error |-> is_client_error(code),
   server_error |-> is_server_error(code)]

\* ------------------------------------------------------------------ caller

\* The caller's buffer: `written` bytes of pre-written data, the rest zero.
CallerBuf(len, written) == [i \in 1..len |-> IF i <= written THEN PrefixByte(i - 1) ELSE 0]

\* The number of pre-written bytes the writer was constructed with.
Written == last.written

\* The next k bytes of the caller's body.
Src(k) == BodySlice(bw.taken, k)

\* The bytes accepted from the caller so far.
Accepted == BodySlice(0, bw.taken)

CanWrite(k) ==
  /\ k \in SrcLens
  /\ \/ bw.taken + k <= MaxBody
     \/ k \in LongWrite /\ bw.taken = 0

\* One call on the buffering writer, the transport behaving as `io` says.
Call(op, k, io) ==
  Let(Let([bw EXCEPT !.io = io, !.ret = 0, !.fin = <<>>],
          LAMBDA self : CASE op = "write" -> write(self, Src(k))
                          [] op = "write_all" -> write_all(self, Src(k))
                          [] op = "flush" -> flush(self)
                          [] op = "terminate" -> terminate(self)),
      LAMBDA s : [s EXCEPT !.io = NoFail,
                           !.ret = IF op = "write" /\ s.res = "ok" THEN @ ELSE 0])

BwStep(op, k, io) ==
  /\ bw.res = "ok"
  /\ Len(bw.conn) < MaxEmits
  /\ last.after < MaxAfter
  /\ bw' = Call(op, k, io)
  /\ last' = [last EXCEPT !.op = op, !.len = k,
                          !.after = IF bw.terminated THEN @ + 1 ELSE @]
  /\ UNCHANGED <<resp, fw>>

Idle == [res |-> "idle"]

InitBW ==
  /\ \E b \in Bufs :
       /\ new_with_data_accepts(b[1], b[2])
       /\ bw = new_with_data(CallerBuf(b[1], b[2]), b[2])
       /\ last = [op |-> "new", len |-> 0, written |-> b[2], after |-> 0]
  /\ raw = FALSE
  /\ resp = Idle /\ fw = Idle
  /\ cw = Idle
  /\ rd = Idle

Write ==
  \E k \in SrcLens : \E io \in IoPlans :
    /\ CanWrite(k)
    /\ BwStep("write", k, io)
    /\ raw' = TRUE
    /\ UNCHANGED <<cw, rd>>

WriteAll ==
  \E k \in SrcLens : \E io \in IoPlans :
    /\ CanWrite(k)
    /\ BwStep("write_all", k, io)
    /\ UNCHANGED <<raw, cw, rd>>

Flush ==
  \E io \in IoPlans :
    /\ BwStep("flush", 0, io)
    /\ UNCHANGED <<raw, cw, rd>>

Terminate ==
  \E io \in IoPlans :
    /\ BwStep("terminate", 0, io)
    /\ UNCHANGED <<raw, cw, rd>>

Next == Write \/ WriteAll \/ Flush \/ Terminate

Spec == InitBW /\ [][Next]_vars

\* ---------------------------------------- the two chunked writers side by side

\* The same call on the streaming writer, fed from the same body.
CwCall(op, k) ==
  Let(CASE op = "write" -> chunked_write(cw, BodySlice(cw.taken, k))
        [] op = "write_all" -> chunked_write_all(cw, BodySlice(cw.taken, k))
        [] op = "flush" -> chunked_flush(cw)
        [] op = "terminate" -> chunked_terminate(cw),
      LAMBDA s : [s EXCEPT !.ret = IF op = "write" /\ s.res = "ok" THEN @ ELSE 0,
                           !.taken = IF s.res = "ok" THEN @ + k ELSE @])

TwinStep(op, k) ==
  /\ cw.res = "ok"
  /\ BwStep(op, k, NoFail)
  /\ cw' = CwCall(op, k)
  /\ UNCHANGED rd

InitTwin ==
  /\ \E b \in Bufs :
       /\ new_with_data_accepts(b[1], b[2])
       /\ bw = new_with_data(CallerBuf(b[1], b[2]), b[2])
       /\ last = [op |-> "new", len |-> 0, written |-> b[2], after |-> 0]
  /\ raw = FALSE
  /\ resp = Idle /\ fw = Idle
  /\ cw = chunked_new
  /\ rd = Idle

\* write on both writers; of the raw write calls only the empty one, which
\* both writers take whole.
TwinWrite == TwinStep("write", 0) /\ UNCHANGED raw

TwinWriteAll == \E k \in SrcLens : CanWrite(k) /\ TwinStep("write_all", k) /\ UNCHANGED raw

TwinFlush == TwinStep("flush", 0) /\ UNCHANGED raw

TwinTerminate == TwinStep("terminate", 0) /\ UNCHANGED raw

NextTwin == TwinWrite \/ TwinWriteAll \/ TwinFlush \/ TwinTerminate

SpecTwin == InitTwin /\ [][NextTwin]_vars

\* ---------------------------------------- the encoder's output read back

\* The body the encoder was given.
Encoded == BodySlice(0, cw.taken)

\* A chunk of k bytes may be encoded next.
CanEncode(k) ==
  \/ k \in 1..MaxWrite /\ cw.taken + k <= MaxBody
  \/ k \in LongWrite /\ \A l \in LongWrite : cw.taken < l

InitReader ==
  /\ bw = Idle
  /\ last = [op |-> "new", len |-> 0, written |-> 0, after |-> 0]
  /\ raw = FALSE
  /\ resp = Idle /\ fw = Idle
  /\ cw = chunked_new
  /\ rd = Idle

\* The encoder writes the next chunk of the body.
Encode ==
  \E k \in (1..MaxWrite) \cup LongWrite :
    /\ rd = Idle /\ resp = Idle /\ CanEncode(k)
    /\ cw' = CwCall("write_all", k)
    /\ last' = [last EXCEPT !.op = "write_all", !.len = k]
    /\ UNCHANGED <<resp, fw, bw, raw, rd>>

\* The encoder ends the body; a reader is made over the bytes it has sent.
EncodeEnd ==
  /\ rd = Idle
  /\ cw' = CwCall("terminate", 0)
  /\ rd' = reader_new(Wire(CwCall("terminate", 0)))
  /\ last' = [last EXCEPT !.op = "terminate", !.len = 0]
  /\ UNCHANGED <<resp, fw, bw, raw>>

\* One read into a buffer of buf_len bytes; the caller stops at Ok(0) or Err.
Read ==
  \E buf_len \in 1..MaxReadBuf : \E avail \in 1..MaxReadBuf :
    /\ rd # Idle /\ rd.res = "ok"
    /\ last.op = "read" => rd.ret > 0
    /\ rd' = read(rd, buf_len, avail)
    /\ last' = [last EXCEPT !.op = "read", !.len = buf_len]
    /\ UNCHANGED <<resp, fw, bw, raw, cw>>

NextReader == Encode \/ EncodeEnd \/ Read

SpecReader == InitReader /\ [][NextReader]_vars

\* -------------------------------------------- a body of declared length read

\* The bytes the source holds: the i-th is BodyByte(i).
SourceBytes(n) == BodySlice(0, n)

\* A reader for a body of content_length bytes over a source that holds
\* src_len bytes: fewer than declared, as many, or more.
InitFixed ==
  /\ bw = Idle
  /\ cw = Idle
  /\ raw = FALSE
  /\ resp = Idle /\ fw = Idle
  /\ \E content_length \in 0..MaxBody : \E src_len \in 0..(MaxBody + MaxWrite) :
     \E overflow_checks \in BOOLEAN :
       /\ rd = fixed_new(SourceBytes(src_len), content_length, overflow_checks)
       /\ last = [op |-> "new", len |-> 0, written |-> content_length, after |-> 0]

\* One read into a buffer of buf_len bytes.
FixedRead ==
  \E buf_len \in 1..MaxReadBuf : \E avail \in 1..MaxReadBuf :
    /\ rd.res = "ok"
    /\ last.after < MaxAfter + 1
    /\ rd' = fixed_read(rd, buf_len, avail)
    /\ last' = [last EXCEPT !.op = "read", !.len = buf_len,
                            !.after = IF rd.remaining = 0 \/ rd.raw_body = <<>> THEN @ + 1 ELSE @]
    /\ UNCHANGED <<resp, fw, bw, raw, cw>>

NextFixed == FixedRead

SpecFixed == InitFixed /\ [][NextFixed]_vars

\* ------------------------------- a chunked body from a source that stops
\* ------------------------------- early, or goes on after the body

\* What the source delivers of the encoder's output `wire`: its first k bytes,
\* or all of it and k - Len(wire) bytes more.
Served(wire, k) ==
  IF k <= Len(wire) THEN SubSeq(wire, 1, k)
  ELSE wire \o [i \in 1..(k - Len(wire)) |-> PrefixByte(i - 1)]

InitStream ==
  /\ bw = Idle
  /\ last = [op |-> "new", len |-> 0, written |-> 0, after |-> 0, stream |-> <<>>]
  /\ raw = FALSE
  /\ resp = Idle /\ fw = Idle
  /\ cw = chunked_new
  /\ rd = Idle

\* The encoder ends the body; the source delivers k bytes of what was sent.
EncodeEndServe ==
  /\ rd = Idle
  /\ \E k \in 0..(Len(Wire(CwCall("terminate", 0))) + MaxExtra) :
       /\ rd' = reader_new(Served(Wire(CwCall("terminate", 0)), k))
       /\ last' = [last EXCEPT !.op = "terminate", !.len = 0,
                               !.stream = Served(Wire(CwCall("terminate", 0)), k)]
  /\ cw' = CwCall("terminate", 0)
  /\ UNCHANGED <<resp, fw, bw, raw>>

\* One read into a buffer of buf_len bytes.  The caller may read again after
\* Ok(0) or Err, MaxAfter times.
StreamRead ==
  \E buf_len \in 1..MaxReadBuf : \E avail \in 1..MaxReadBuf :
    /\ rd # Idle
    /\ last.after < MaxAfter
    /\ rd' = read([rd EXCEPT !.res = "ok", !.err = "none"], buf_len, avail)
    /\ last' = [last EXCEPT !.op = "read", !.len = buf_len,
                            !.after = IF rd.res = "ok" /\ (last.op # "read" \/ rd.ret > 0)
                                      THEN @ ELSE @ + 1]
    /\ UNCHANGED <<resp, fw, bw, raw, cw>>

NextStream == Encode \/ EncodeEndServe \/ StreamRead

SpecStream == InitStream /\ [][NextStream]_vars

\* ------------------------------------------------ a whole body read to end

\* The encoder's input is the body.  The body reader is of one of the four
\* variants; the source holds the body as that variant expects it: chunked as
\* the encoder sent it, as it is otherwise (nothing for Empty).
BodySource(variant, wire, body) ==
  CASE variant = "Chunked" -> wire
    [] variant = "Empty" -> <<>>
    [] OTHER -> body

NewBodyReader(variant, wire, body, overflow_checks) ==
  CASE variant = "Empty" -> BodyReader("Empty", conn_new(<<>>))
    [] variant = "FixedLength" ->
         BodyReader("FixedLength", fixed_new(body, Len(body), overflow_checks))
    [] variant = "Chunked" -> BodyReader("Chunked", reader_new(wire))
    [] variant = "ToEnd" -> BodyReader("ToEnd", conn_new(body))

EncodeEndBody ==
  \E variant \in {"Empty", "FixedLength", "Chunked", "ToEnd"} : \E overflow_checks \in BOOLEAN :
    /\ rd = Idle
    /\ cw' = CwCall("terminate", 0)
    /\ rd' = NewBodyReader(variant, Wire(CwCall("terminate", 0)), Encoded, overflow_checks)
    /\ last' = [last EXCEPT !.op = "terminate", !.len = 0]
    /\ UNCHANGED <<resp, fw, bw, raw>>

\* read_to_end into a buffer of buf_len bytes.
ReadToEnd ==
  \E buf_len \in 0..(MaxBody + 1) \cup {n + d : n \in LongWrite, d \in 0..MaxBody} :
  \E avail \in 1..MaxReadBuf :
    /\ rd # Idle
    /\ last.op = "terminate"
    /\ rd' = body_read_to_end(rd, buf_len, avail)
    /\ last' = [last EXCEPT !.op = "read_to_end", !.len = buf_len]
    /\ UNCHANGED <<resp, fw, bw, raw, cw>>

NextToEnd == Encode \/ EncodeEndBody \/ ReadToEnd

SpecToEnd == InitReader /\ [][NextToEnd]_vars

\* ------------------------------------------------- a response read and its body

\* The server's body is the encoder's input: sent chunked when the header
\* says so, else as it is.
Payload(chunked) == IF chunked THEN Wire(CwCall("terminate", 0)) ELSE Encoded

\* The Content-Length a header may declare for a payload of len bytes: none,
\* the length, one less, or 0.
DeclaredLengths(len) == {None, Some(0), Some(len), Some(SatSub(len, 1))}

\* The headers a server sends.  Status 200 with any of the declared lengths,
\* chunked or not; 100 and 204 with no Content-Length, with 0 and with 1; and
\* a header httparse rejects, and one whose Content-Length is no number.
Headers ==
  {Header(200, cl, chunked, TRUE, TRUE) :
     <<cl, chunked>> \in UNION {DeclaredLengths(Len(Payload(c))) \X {c} : c \in BOOLEAN}}
  \cup {Header(code, cl, FALSE, TRUE, TRUE) :
          code \in {100, NoContent}, cl \in {None, Some(0), Some(1)}}
  \cup {Header(200, None, FALSE, TRUE, FALSE), Header(200, None, FALSE, FALSE, TRUE)}

\* The request's method: a response to HEAD comes without a body.
Methods == IF Encoded = <<>> THEN {"GET", "HEAD"} ELSE {"GET"}

Frags == (1..MaxReadBuf) \cup {AllAtHand}

\* The connection delivers all the server sent, or, for the plain header of
\* a body read to the end, closes within the header.
Cuts(header, sent) ==
  {Len(sent)} \cup (IF header = Header(200, None, FALSE, TRUE, TRUE)
                    THEN 0..(HeadLen - 1) ELSE {})

\* The encoder writes the next chunk of the body, of 1..MaxWrite bytes.
EncodeChunk ==
  \E k \in 1..MaxWrite :
    /\ resp = Idle /\ cw.taken + k <= MaxResponseBody
    /\ cw' = CwCall("write_all", k)
    /\ last' = [last EXCEPT !.op = "write_all", !.len = k]
    /\ UNCHANGED <<bw, raw, rd, resp, fw>>

\* The server answers a request of the method: the connection holds the
\* header and the body, or what of them it delivers before it closes.
Serve ==
  /\ resp = Idle
  /\ \E header \in Headers : \E method \in Methods :
     \E cut \in Cuts(header, HeadBytes(HeadLen) \o Payload(header.chunked)) :
       resp' = [stage |-> "conn", header |-> header, method |-> method,
                src |-> SubSeq(HeadBytes(HeadLen) \o Payload(header.chunked), 1, cut),
                v |-> SubSeq(HeadBytes(HeadLen) \o Payload(header.chunked), 1, cut)]
  /\ cw' = CwCall("terminate", 0)
  /\ last' = [last EXCEPT !.op = "terminate", !.len = 0]
  /\ UNCHANGED <<bw, raw, rd, fw>>

\* Response::read into a buffer of buf_len bytes.
ResponseRead ==
  \E buf_len \in {0} \cup ((HeadLen - 1)..(HeadLen + MaxResponseBody + 1)) :
  \E avail \in Frags :
    /\ resp # Idle /\ resp.stage = "conn"
    /\ resp' = [resp EXCEPT !.stage = "response",
                            !.v = response_read(resp.v, resp.header, resp.method, buf_len, avail)]
    /\ last' = [last EXCEPT !.op = "response_read", !.len = buf_len]
    /\ UNCHANGED <<bw, raw, cw, rd, fw>>

\* Response::body
Body ==
  /\ resp # Idle /\ resp.stage = "response" /\ resp.v.res = "ok"
  /\ resp' = [resp EXCEPT !.stage = "body", !.v = response_body(resp.v)]
  /\ last' = [last EXCEPT !.op = "body"]
  /\ UNCHANGED <<bw, raw, cw, rd, fw>>

\* ResponseBody::reader
Reader ==
  \E overflow_checks \in BOOLEAN :
    /\ resp # Idle /\ resp.stage = "body"
    /\ resp' = [resp EXCEPT !.stage = "reader"]
    /\ rd' = response_body_reader(resp.v, overflow_checks)
    /\ last' = [last EXCEPT !.op = "reader"]
    /\ UNCHANGED <<bw, raw, cw, fw>>

\* One read of the body reader; the caller stops at Ok(0), Err or a panic.
\* A caller uses the reader by read or by fill_buf and consume, not by both.
BodyRead ==
  \E buf_len \in 1..MaxReadBuf : \E avail \in {1, AllAtHand} :
    /\ resp # Idle /\ resp.stage = "reader"
    /\ rd.r.res = "ok"
    /\ last.op \in {"reader", "read"}
    /\ last.op = "read" => rd.r.ret > 0
    /\ rd' = body_read(rd, buf_len, avail)
    /\ last' = [last EXCEPT !.op = "read"]
    /\ UNCHANGED <<bw, raw, cw, resp, fw>>

\* fill_buf of the body reader, and consume of all it returned; the caller
\* stops at an empty slice, Err or a panic.
BodyFillBuf ==
  \E avail \in {1, AllAtHand} :
    /\ resp # Idle /\ resp.stage = "reader"
    /\ rd.r.res = "ok"
    /\ last.op \in {"reader", "fill_buf"}
    /\ last.op = "fill_buf" => rd.r.ret > 0
    /\ rd' = take_filled(body_fill_buf(rd, avail))
    /\ last' = [last EXCEPT !.op = "fill_buf"]
    /\ UNCHANGED <<bw, raw, cw, resp, fw>>

\* ResponseBody::read_to_end
BodyReadToEnd ==
  \E overflow_checks \in BOOLEAN : \E avail \in Frags :
    /\ resp # Idle /\ resp.stage = "body"
    /\ resp' = [resp EXCEPT !.stage = "read_to_end"]
    /\ rd' = response_body_read_to_end(resp.v, avail, overflow_checks)
    /\ last' = [last EXCEPT !.op = "read_to_end"]
    /\ UNCHANGED <<bw, raw, cw, fw>>

NextResponse ==
  \/ EncodeChunk \/ Serve \/ ResponseRead \/ Body
  \/ Reader \/ BodyRead \/ BodyFillBuf \/ BodyReadToEnd

SpecResponse == InitReader /\ [][NextResponse]_vars

\* ------------------------------------------------ a request with a sized body

\* A request whose body declares len() = Some(len) is written to a plain
\* connection whose transport follows the plan io.  offered: the bytes the body
\* has handed to the writer; counted: the sum of the counts of the writer's
\* calls that returned Ok; failed: a call of the writer has returned Err.
RequestPlans ==
  IoPlans \cup [ok_calls : 2..MaxOkCalls, part : {"none", "most"}, flush_ok : {TRUE}]

InitRequest ==
  /\ bw = Idle /\ rd = Idle /\ resp = Idle
  /\ raw = FALSE
  /\ cw = chunked_new
  /\ last = [op |-> "new", len |-> 0, written |-> 0, after |-> 0]
  /\ \E len \in 0..MaxBody : \E io \in RequestPlans :
       fw = [stage |-> "new", len |-> len, offered |-> 0, counted |-> 0, failed |-> FALSE,
             w |-> request_conn(io)]

\* write_request writes the header and hands the writer to the body.
RequestBegin ==
  /\ fw.stage = "new"
  /\ fw' = [fw EXCEPT !.stage = IF write_request_begin(fw.w, fw.len).res = "ok"
                                 THEN "body" ELSE "header_err",
                      !.w = write_request_begin(fw.w, fw.len)]
  /\ last' = [last EXCEPT !.op = "write_header"]
  /\ UNCHANGED <<bw, raw, cw, rd, resp>>

\* body.write is running: the writer has not failed and write_request has not
\* returned.
InBody == fw.stage = "body" /\ fw.w.result = "none" /\ ~fw.failed

\* The outcome of one call of the writer, recorded.
AfterCall(w, op, k, count) ==
  /\ fw' = [fw EXCEPT !.w = [w EXCEPT !.res = "ok"],
                      !.offered = @ + k,
                      !.counted = IF w.res = "ok" THEN @ + count ELSE @,
                      !.failed = w.res # "ok"]
  /\ last' = [last EXCEPT !.op = op, !.len = k]
  /\ UNCHANGED <<bw, raw, cw, rd, resp>>

\* The body calls write with k bytes, of which the transport takes `accept`.
BodyWrite ==
  /\ InBody
  /\ \E k \in 0..MaxWrite : \E accept \in 1..MaxWrite :
       /\ fw.offered + k <= MaxBody + 1 /\ (accept <= k \/ k = 0)
       /\ AfterCall(fixed_body_write(fw.w, BodySlice(fw.offered, k), accept), "write", k,
                    fixed_body_write(fw.w, BodySlice(fw.offered, k), accept).ret)

\* The body calls write_all with k bytes.
BodyWriteAll ==
  /\ InBody
  /\ \E k \in 0..MaxWrite :
       /\ fw.offered + k <= MaxBody + 1
       /\ AfterCall(fixed_body_write_all(fw.w, BodySlice(fw.offered, k)), "write_all", k, k)

\* The body calls flush.
BodyFlush ==
  /\ InBody /\ last.op # "flush"
  /\ AfterCall(fixed_body_flush(fw.w), "flush", 0, 0)

\* body.write returns, Ok(()) or Err, and write_request goes on from there.
BodyReturn ==
  /\ fw.stage = "body" /\ fw.w.result = "none"
  /\ \E body_ok \in BOOLEAN :
       fw' = [fw EXCEPT !.stage = IF body_ok THEN "body_ok" ELSE "body_err",
                        !.w = write_request_end(fw.w, body_ok)]
  /\ last' = [last EXCEPT !.op = "return"]
  /\ UNCHANGED <<bw, raw, cw, rd, resp>>

NextRequest == RequestBegin \/ BodyWrite \/ BodyWriteAll \/ BodyFlush \/ BodyReturn

SpecRequest == InitRequest /\ [][NextRequest]_vars

\* --------------------------- the streaming writer on a transport that may fail

\* Writes long enough for a size line with a letter digit, with two digits,
\* and with both.
WideWrites == {11, 17, 26}

\* One call on the streaming writer, the transport behaving as `io` says.
CwCallIo(op, k, io) ==
  Let(Let([cw EXCEPT !.io = io, !.ret = 0],
          LAMBDA self : CASE op = "write" -> chunked_write(self, BodySlice(cw.taken, k))
                          [] op = "write_all" -> chunked_write_all(self, BodySlice(cw.taken, k))
                          [] op = "flush" -> chunked_flush(self)
                          [] op = "terminate" -> chunked_terminate(self)),
      LAMBDA s : [s EXCEPT !.io = NoFail,
                           !.ret = IF op = "write" /\ s.res = "ok" THEN @ ELSE 0,
                           !.taken = IF s.res = "ok" THEN @ + k ELSE @])

CanChunk(k) ==
  \/ k \in 0..MaxWrite /\ cw.taken + k <= MaxBody
  \/ k \in WideWrites /\ cw.taken <= MaxBody

ChunkedStep(op, k, io) ==
  /\ cw.res = "ok" /\ last.op # "terminate"
  /\ cw' = CwCallIo(op, k, io)
  /\ last' = [last EXCEPT !.op = op, !.len = k]
  /\ UNCHANGED <<bw, raw, rd, resp, fw>>

ChunkedWrite ==
  \E k \in (0..MaxWrite) \cup WideWrites : \E io \in IoPlans :
    CanChunk(k) /\ ChunkedStep("write", k, io)

ChunkedWriteAll ==
  \E k \in (0..MaxWrite) \cup WideWrites : \E io \in IoPlans :
    CanChunk(k) /\ ChunkedStep("write_all", k, io)

ChunkedFlush == last.op # "flush" /\ \E io \in IoPlans : ChunkedStep("flush", 0, io)

ChunkedTerminate == \E io \in IoPlans : ChunkedStep("terminate", 0, io)

NextChunked == ChunkedWrite \/ ChunkedWriteAll \/ ChunkedFlush \/ ChunkedTerminate

SpecChunked == InitReader /\ [][NextChunked]_vars

\* ------------------------------------------------- status codes classified

InitStatus ==
  /\ bw = Idle /\ rd = Idle /\ cw = Idle /\ fw = Idle
  /\ raw = FALSE
  /\ last = [op |-> "new", len |-> 0, written |-> 0, after |-> 0]
  /\ \E code \in 0..U16Max : resp = [stage |-> "code", code |-> code]

\* The five predicates are asked of StatusCode(code) and of the Status made
\* from it.
Classify ==
  /\ resp.stage = "code"
  /\ resp' = [stage |-> "classified",
              code |-> resp.code,
              of_code |-> status_classes(resp.code),
              status |-> status_from(resp.code),
              of_status |-> status_classes(status_from(resp.code))]
  /\ UNCHANGED <<bw, last, raw, cw, rd, fw>>

NextStatus == Classify

SpecStatus == InitStatus /\ [][NextStatus]_vars

\* ------------------------------------------------------ a request's header

\* "/a/", "/", "x", "h", "dTpw" (the base64 of "u:p"), "X-A", "X-B", "1".
Sample ==
  [base_path |-> <<47, 97, 47>>, root |-> <<47>>, relative |-> <<120>>, host |-> <<104>>,
   authz |-> <<100, 84, 112, 119>>, x_a |-> <<88, 45, 65>>, x_b |-> <<88, 45, 66>>,
   one |-> <<49>>]

\* The bodies of requests: none, bodies of a known length, and bodies of
\* unknown length; pieces: the lengths of the write_all calls body.write
\* makes.
Bodies ==
  {Absent}
  \cup {Present([len |-> Some(n), pieces |-> IF n = 0 THEN <<>> ELSE <<n>>]) : n \in {0, 1, 12}}
  \cup {Present([len |-> None, pieces |-> ps]) : ps \in {<<>>, <<1>>, <<2, 1>>}}

Requests ==
  [method : {"GET", "PUT", "POST", "DELETE", "HEAD"},
   base_path : {Absent, Present(Sample.base_path)},
   path : {Sample.root, Sample.relative},
   auth : {Absent, Present([fits |-> TRUE, authz |-> Sample.authz]),
           Present([fits |-> FALSE, authz |-> <<>>])},
   host : {Absent, Present(Sample.host)},
   content_type : {Absent, Present("ApplicationJson"), Present("TextPlain")},
   body : Bodies,
   extra_headers : {Absent, Present(<<>>), Present(<<<<Sample.x_a, Sample.one>>>>),
                    Present(<<<<Sample.x_b, Sample.one>>, <<Sample.x_a, Sample.one>>>>)}]

\* The transport completes every write, or fails the first, the third, the
\* seventh or the twelfth.
HeaderPlans ==
  {NoFail} \cup [ok_calls : {0, 2, 6, 11}, part : {"none", "most"}, flush_ok : {TRUE}]

InitHeader ==
  /\ bw = Idle /\ rd = Idle /\ cw = Idle /\ resp = Idle
  /\ raw = FALSE
  /\ last = [op |-> "new", len |-> 0, written |-> 0, after |-> 0]
  /\ \E request \in Requests : \E io \in HeaderPlans :
       fw = [stage |-> "request", request |-> request, c |-> request_conn(io)]

\* request.write_header(c)
WriteHeader ==
  /\ fw.stage = "request"
  /\ fw' = [fw EXCEPT !.stage = "header", !.c = request_write_header(fw.request, fw.c)]
  /\ UNCHANGED <<bw, last, raw, cw, rd, resp>>

NextHeader == WriteHeader

SpecHeader == InitHeader /\ [][NextHeader]_vars

\* ------------------------------------------------------------ a request sent

\* The calls of send on one handle.
MaxSends == 3

\* The requests sent: paths of one to four bytes, no body, bodies of a known
\* length that write what they declare, one that writes less, and bodies of
\* unknown length in pieces of one byte to the whole of a small buffer.
SendRequests ==
  [method : {"GET"},
   base_path : {Absent},
   path : {SubSeq(<<47, 97, 98, 99>>, 1, n) : n \in 1..4},
   auth : {Absent},
   host : {Absent, Present(Sample.host)},
   content_type : {Absent},
   body : {Absent}
          \cup {Present([len |-> Some(b[1]), pieces |-> b[2]]) :
                  b \in {<<0, <<>> >>, <<1, <<1>> >>, <<3, <<2, 1>> >>, <<2, <<1>> >>}}
          \cup {Present([len |-> None, pieces |-> ps]) :
                  ps \in {<<>>, <<1>>, <<2, 1>>, <<MaxBufLen>>}},
   extra_headers : {Absent}]

\* The connections: Plain, Tls, and PlainBuffered on a tx_buf of 5 to
\* MaxBufLen bytes over a transport that takes all it is offered or one byte
\* less.
Connections(io) ==
  {http_connection(kind, <<>>, FALSE, io) : kind \in {"Plain", "Tls"}}
  \cup {http_connection("PlainBuffered", [i \in 1..n |-> 0], short, io) :
          n \in 5..MaxBufLen, short \in BOOLEAN}

\* The transport completes every write, fails a flush, or fails a write of
\* the header, of the body or of the terminator.
SendPlans ==
  {NoFail, [ok_calls |-> -1, part |-> "none", flush_ok |-> FALSE]}
  \cup [ok_calls : {0, 3, 6, 9, 10, 12}, part : {"none", "most"}, flush_ok : {TRUE}]

\* The server answers with a header, or closes the connection.
Servers ==
  {[bytes |-> b, header |-> Header(200, Some(0), FALSE, TRUE, TRUE), buf_len |-> HeadLen + 1] :
     b \in {HeadBytes(HeadLen), <<>>}}

InitSend ==
  /\ bw = Idle /\ rd = Idle /\ cw = Idle /\ resp = Idle
  /\ raw = FALSE
  /\ last = [op |-> "new", len |-> 0, written |-> 0, after |-> 0]
  /\ \E request \in SendRequests : \E io \in SendPlans : \E c \in Connections(io) :
     \E server \in Servers :
       \/ fw = [stage |-> "connection", request |-> request, server |-> server, c |-> c]
       \/ fw = [stage |-> "handle", request |-> request, server |-> server, calls |-> 0,
                handle |-> [result |-> "none"] @@ http_request_handle(c, request)]

\* conn.send(request, rx_buf)
ConnectionSend ==
  /\ fw.stage = "connection"
  /\ fw' = [fw EXCEPT !.stage = "sent", !.c = send(fw.c, fw.request, fw.server)]
  /\ UNCHANGED <<bw, last, raw, cw, rd, resp>>

\* handle.send(rx_buf), again after it has returned.
HandleSend ==
  /\ fw.stage = "handle"
  /\ fw.calls < MaxSends
  /\ fw.handle.conn.res # "panic"
  /\ fw' = [fw EXCEPT !.handle = handle_send(fw.handle, fw.server), !.calls = @ + 1]
  /\ UNCHANGED <<bw, last, raw, cw, rd, resp>>

NextSend == ConnectionSend \/ HandleSend

SpecSend == InitSend /\ [][NextSend]_vars

\* ------------------------------------------------- the chunked wire format

IsHex(c) == c \in (48..57) \cup (97..102)

HexVal(c) == IF c <= 57 THEN c - 48 ELSE c - 87

RECURSIVE HexNum(_)
HexNum(ds) ==
  IF ds = <<>> THEN 0 ELSE 16 * HexNum(SubSeq(ds, 1, Len(ds) - 1)) + HexVal(ds[Len(ds)])

RECURSIVE NumDigits(_)
\* The number of lower-case hex digits b starts with.
NumDigits(b) == IF b = <<>> \/ ~IsHex(b[1]) THEN 0 ELSE 1 + NumDigits(Tail(b))

Bad == [ok |-> FALSE, items |-> <<>>]

RECURSIVE ParseItems(_)
\* b read as chunks SIZE_HEX CRLF DATA CRLF, where SIZE_HEX has no leading
\* zero and is the length of DATA: the DATA of each chunk in order (the
\* terminating 0 CRLF CRLF is a chunk with empty DATA), ok iff b is made of
\* whole chunks only.
ParseItems(b) ==
  IF b = <<>> THEN [ok |-> TRUE, items |-> <<>>]
  ELSE Let(NumDigits(b),
       LAMBDA n :
         IF \/ n = 0 \/ n > 7 \/ (n > 1 /\ b[1] = 48)
            \/ Len(b) < n + 2 \/ SubSeq(b, n + 1, n + 2) # NEWLINE
         THEN Bad
         ELSE Let(HexNum(SubSeq(b, 1, n)),
              LAMBDA v :
                IF Len(b) < n + 2 + v + 2 \/ SubSeq(b, n + 2 + v + 1, n + 2 + v + 2) # NEWLINE
                THEN Bad
                ELSE Let(ParseItems(SubSeq(b, n + 2 + v + 3, Len(b))),
                     LAMBDA r : [ok |-> r.ok,
                                 items |-> <<SubSeq(b, n + 3, n + 2 + v)>> \o r.items])))

\* The pre-written bytes of the caller's buffer.
Prefix == [i \in 1..Written |-> PrefixByte(i - 1)]

StartsWithPrefix(out) == Len(out) >= Written /\ SubSeq(out, 1, Written) = Prefix

AfterPrefix(out) == SubSeq(out, Written + 1, Len(out))

\* items is a body's chunks and then the one terminating chunk.
ChunksThenTerminator(items) ==
  /\ Len(items) >= 1
  /\ items[Len(items)] = <<>>
  /\ \A i \in 1..(Len(items) - 1) : items[i] # <<>>

\* ------------------------------------------- claims: the buffering writer

\* The call that made this step did not fail on a transport error.
NoIoError == bw'.res # "err"

\* C2: whatever the calls, the first `written` bytes the transport receives are
\* the pre-written bytes of the buffer, unmodified; the first completed
\* transport write holds all of them, and what follows them on the wire is
\* chunks only, so they are sent once.
C2_PrefixSentOnce ==
  /\ \A i \in 1..Min(Len(Wire(bw)), Written) : Wire(bw)[i] = Prefix[i]
  /\ bw.conn # <<>> => StartsWithPrefix(bw.conn[1])
  /\ (bw.conn # <<>> /\ bw.res # "err") => ParseItems(AfterPrefix(Wire(bw))).ok

C2_Witness ==
  /\ Written >= 2
  /\ Len(bw.conn) >= 3
  /\ bw.taken >= 2
  /\ bw.terminated

\* C3: after write_all calls (and flushes) followed by terminate, the transport
\* has received the pre-written bytes, then chunks with non-empty DATA whose
\* size line is the length of DATA and whose DATA concatenated is the caller's
\* writes in order, then one terminating 0 CRLF CRLF, and nothing else.
C3_WireFormat ==
  (last.op = "terminate" /\ bw.res = "ok" /\ ~raw) =>
    /\ StartsWithPrefix(Wire(bw))
    /\ ParseItems(AfterPrefix(Wire(bw))).ok
    /\ ChunksThenTerminator(ParseItems(AfterPrefix(Wire(bw))).items)
    /\ Flat(ParseItems(AfterPrefix(Wire(bw))).items) = Accepted

C3_Witness ==
  /\ last.op = "terminate" /\ bw.res = "ok" /\ ~raw
  /\ Written >= 1
  /\ Len(ParseItems(AfterPrefix(Wire(bw))).items) >= 3

\* C5 (as claimed): when new_with_data left no room for a header slot
\* (allocated_header = 0), the first non-empty write succeeds: it sends the
\* pre-written bytes, then buffers at least one byte in a fresh chunk at the
\* start of the buffer, and does not panic.
C5_FirstWriteWithoutHeaderSlot ==
  [][(/\ last.op = "new" /\ bw.allocated_header = 0
      /\ last'.op = "write" /\ last'.len > 0
      /\ NoIoError)
     => (/\ bw'.res = "ok"
         /\ bw'.ret >= 1
         /\ Wire(bw') = Prefix
         /\ bw'.header_pos = 0
         /\ bw'.pos = bw'.allocated_header + bw'.ret)]_vars

\* C6 (as claimed): once terminate has succeeded, every further call is
\* rejected by an assertion and the transport receives nothing more.
C6_RejectedAfterTerminate ==
  [][(bw.terminated /\ NoIoError) => (bw'.res = "panic" /\ Wire(bw') = Wire(bw))]_vars

\* C8 (as claimed): write with a non-empty source returns a count n with
\* 1 <= n <= source length and takes exactly the first n bytes of the source.
C8_WriteMakesProgress ==
  [][(last'.op = "write" /\ last'.len > 0 /\ NoIoError)
     => (/\ bw'.res = "ok"
         /\ bw'.ret >= 1 /\ bw'.ret <= last'.len
         /\ bw'.taken = bw.taken + bw'.ret)]_vars

\* The buffer holds no byte that is still to be sent.
NothingPending(self) ==
  self.header_pos = 0 /\ self.pos = self.header_pos + self.allocated_header

\* C9: after a flush that succeeded, the transport has received the pre-written
\* bytes and, in chunks, every byte accepted by earlier writes, the buffer
\* holds nothing pending and the transport has been flushed; a flush with no
\* payload in the open chunk sends no chunk.
C9_FlushEmptiesBuffer ==
  [][(last'.op = "flush" /\ bw'.res = "ok")
     => (/\ StartsWithPrefix(Wire(bw'))
         /\ ParseItems(AfterPrefix(Wire(bw'))).ok
         /\ Flat(ParseItems(AfterPrefix(Wire(bw'))).items) = BodySlice(0, bw'.taken)
         /\ NothingPending(bw')
         /\ bw'.flushed
         /\ (bw.pos = bw.header_pos + bw.allocated_header
               => Wire(bw') \in {Wire(bw), Wire(bw) \o Slice(bw.buf, 0, bw.header_pos)})
         /\ (bw.pos = bw.header_pos + bw.allocated_header /\ Wire(bw) # <<>>
               => Wire(bw') = Wire(bw)))]_vars

C9_Witness ==
  /\ last.op = "flush" /\ bw.res = "ok"
  /\ Written >= 1
  /\ bw.taken >= 2
  /\ Len(bw.conn) >= 2

\* C10: every completed transport write is made of whole chunks (after the
\* pre-written bytes, in the first one): no chunk is split over two writes and
\* none is sent before its size line is in place.
C10_WholeChunksPerWrite ==
  \A i \in 1..Len(bw.conn) :
    IF i = 1
    THEN StartsWithPrefix(bw.conn[1]) /\ ParseItems(AfterPrefix(bw.conn[1])).ok
    ELSE ParseItems(bw.conn[i]).ok

C10_Witness ==
  /\ Len(bw.conn) >= 3
  /\ \E i \in 2..Len(bw.conn) : Len(ParseItems(bw.conn[i]).items) >= 2

\* -------------------------------------------------- claims: the round trip

\* C4: the reader, reading what the encoder sent for a body split into
\* non-empty chunks, never fails and hands over the body's bytes in order; when
\* read returns 0 it has handed over exactly the body, its state is Empty and
\* the stream is used up.  This for every non-empty read buffer, and however
\* the transport cuts the stream.
C4_RoundTrip ==
  rd # Idle =>
    /\ rd.res = "ok"
    /\ Len(rd.out) <= Len(Encoded) /\ rd.out = SubSeq(Encoded, 1, Len(rd.out))
    /\ (last.op = "read" /\ rd.ret = 0) =>
         (rd.out = Encoded /\ is_done(rd) /\ rd.raw_body = <<>>)

C4_Witness ==
  /\ rd # Idle /\ last.op = "read" /\ rd.ret = 0
  /\ rd.out = Encoded /\ is_done(rd)
  /\ Len(cw.conn) >= 10
  /\ Len(Encoded) > 16

\* ---------------------------------------------- claims: the two writers

\* The whole body fits into the first chunk of the buffer.
LargeEnough ==
  /\ get_max_chunk_header_size(Len(bw.buf) - Written) > 0
  /\ bw.taken + Len(NEWLINE) + Written + get_max_chunk_header_size(Len(bw.buf) - Written)
       <= Len(bw.buf)

BothTerminated ==
  last.op = "terminate" /\ bw.res = "ok" /\ cw.res = "ok" /\ ~raw

C7_EmptyWriteIsNoOp ==
  [][(last'.op \in {"write", "write_all"} /\ last'.len = 0)
     => (bw' = [bw EXCEPT !.ret = 0, !.fin = <<>>] /\ cw' = [cw EXCEPT !.ret = 0])]_vars

C7_Witness ==
  /\ last.op = "write" /\ last.len = 0
  /\ bw.res = "ok" /\ cw.res = "ok"
  /\ bw.pos > bw.header_pos + bw.allocated_header
  /\ Written >= 1
  /\ cw.conn # <<>>

\* ------------------------------------- claims: a body of declared length

\* The length the body was declared with.
Declared == last.written

\* C11 (as claimed): one read takes at most `remaining` bytes from the source,
\* whatever the size of the caller's buffer; it lowers remaining by the count
\* it returns and remaining never underflows; with remaining = 0 it returns 0
\* and leaves the source alone; in all the reader yields at most the declared
\* count of bytes.
C11_ReadsAtMostRemaining ==
  [][last'.op = "read"
     => (/\ Len(rd.raw_body) - Len(rd'.raw_body) <= rd.remaining
         /\ rd'.res = "ok"
         /\ rd'.remaining = rd.remaining - rd'.ret
         /\ rd'.remaining >= 0
         /\ (rd.remaining = 0 => rd'.ret = 0 /\ rd'.raw_body = rd.raw_body)
         /\ Len(rd'.out) <= Declared)]_vars

\* ----------------------------- claims: a chunked body from a faulty source

\* The source ends before the end of the encoded body.
Truncated == Len(last.stream) < Len(Wire(cw))

\* The count of bytes the reader has taken from the source.
Consumed == Len(last.stream) - Len(rd.raw_body)

\* C12 (as claimed): when the source ends inside the encoded body, a read that
\* meets the end returns Err(ConnectionAborted): no read returns Ok(0), which
\* would make the partial body look complete, and no other error is returned.
C12_EofIsConnectionAborted ==
  (rd # Idle /\ last.op = "read" /\ last.after = 0 /\ Truncated) =>
    /\ rd.res = "ok" => rd.ret > 0
    /\ rd.res = "err" => rd.err = "ConnectionAborted"

\* C14 (as claimed): the reader is done only when it has taken the encoded
\* body from the source up to and including the CRLF after the zero-length
\* chunk, and no byte after it.
C14_DoneAfterFinalNewline ==
  (rd # Idle /\ is_done(rd)) => (~Truncated /\ Consumed = Len(Wire(cw)))

\* --------------------------------------- claims: a whole body read to end

\* C13 (as claimed): read_to_end on a FixedLength or Chunked body reader
\* returns Ok(n) with the whole body in buf[..n] when the body is no longer
\* than the buffer, the same length included, and BufferTooSmall when (and
\* only when) the body is longer.
C13_ReadToEndFits ==
  (last.op = "read_to_end" /\ rd.variant \in {"FixedLength", "Chunked"}) =>
    IF Len(Encoded) <= last.len
    THEN rd.r.res = "ok" /\ rd.r.ret = Len(Encoded) /\ rd.r.out = Encoded
    ELSE rd.r.res = "err" /\ rd.r.err = "BufferTooSmall"

\* ------------------------------------------------- claims: Response::read

\* Response::read has returned.
ResponseReadDone == resp # Idle /\ resp.stage = "response"

\* The header the source holds is one httparse and the value parsers accept.
HeaderAccepted == resp.header.valid /\ resp.header.content_length_ok

\* The header is complete in the first k bytes of the source.
CompleteIn(k) == k >= HeadLen /\ Len(resp.src) >= HeadLen

\* C16: Response::read stops reading the source as soon as the parser reports
\* the header complete; it returns ConnectionAborted when the source returns 0
\* bytes before that, BufferTooSmall when the caller's buffer fills before
\* that; the count of bytes read never exceeds the buffer's length and is
\* header_len + raw_body_read on success.
C16_HeaderRead ==
  (ResponseReadDone /\ resp.header.valid) =>
    /\ resp.v.pos <= last.len
    /\ resp.v.pos + Len(resp.v.conn) = Len(resp.src)
    /\ resp.v.reads > 0 => ~CompleteIn(resp.v.before_last)
    /\ (Len(resp.src) < HeadLen /\ Len(resp.src) < last.len) =>
         (resp.v.res = "err" /\ resp.v.err = "ConnectionAborted")
    /\ (last.len < HeadLen /\ last.len <= Len(resp.src)) =>
         (resp.v.res = "err" /\ resp.v.err = "BufferTooSmall")
    /\ (resp.v.res = "err" /\ resp.v.err = "ConnectionAborted") =>
         (resp.v.conn = <<>> /\ ~CompleteIn(resp.v.pos) /\ resp.v.pos < last.len)
    /\ (resp.v.res = "err" /\ resp.v.err = "BufferTooSmall") =>
         (resp.v.pos = last.len /\ ~CompleteIn(resp.v.pos))
    /\ resp.v.res = "ok" =>
         /\ resp.v.header_len = HeadLen
         /\ resp.v.pos = resp.v.header_len + resp.v.raw_body_read
         /\ SubSeq(resp.v.header_buf, 1, resp.v.pos) = SubSeq(resp.src, 1, resp.v.pos)

\* Several reads were needed, and the last brought body bytes with it.
C16_Witness ==
  /\ ResponseReadDone /\ resp.v.res = "ok"
  /\ resp.v.reads > 1 /\ resp.v.raw_body_read > 0

\* C18: Response::read returns Codec when Content-Length is present and
\* smaller than the count of body bytes already in the buffer; so a response
\* returned with content_length Some(n) has raw_body_read <= n, and the
\* subtraction content_length - raw_body_read of read_to_end does not underflow.
C18_ContentLengthCoversBodyRead ==
  /\ (ResponseReadDone /\ HeaderAccepted /\ CompleteIn(resp.v.pos)
        /\ resp.header.content_length.some
        /\ resp.header.content_length.n < resp.v.pos - HeadLen) =>
       (resp.v.res = "err" /\ resp.v.err = "Codec")
  /\ (ResponseReadDone /\ resp.v.res = "ok" /\ resp.v.content_length.some) =>
       resp.v.raw_body_read <= resp.v.content_length.n
  /\ (resp # Idle /\ resp.stage \in {"body", "reader", "read_to_end"}
        /\ resp.v.reader_hint.variant = "FixedLength") =>
       resp.v.reader_hint.content_length - resp.v.raw_body_read >= 0

\* Content-Length was smaller than the body bytes read: Codec.
C18_Witness ==
  /\ ResponseReadDone /\ resp.header.code = 200 /\ resp.header.content_length.some
  /\ resp.header.content_length.n < resp.v.pos - HeadLen
  /\ resp.v.res = "err"

\* The fixed-length body of a response that came with body bytes is read to
\* its end.
C18_WitnessReadToEnd ==
  /\ resp # Idle /\ resp.stage = "read_to_end"
  /\ resp.v.reader_hint.variant = "FixedLength"
  /\ resp.v.raw_body_read > 0 /\ resp.v.reader_hint.content_length > resp.v.raw_body_read
  /\ rd.r.res = "ok"

\* C17 (as claimed): for a status of 100..199 or 204, Response::read returns
\* Codec when a Content-Length other than 0 is present, and otherwise returns
\* a response with content_length = Some(0).
C17_NoContent ==
  (ResponseReadDone /\ HeaderAccepted /\ CompleteIn(last.len)
     /\ (StatusIsInformational(resp.header.code) \/ resp.header.code = NoContent)) =>
    IF resp.header.content_length.some /\ resp.header.content_length.n # 0
    THEN resp.v.res = "err" /\ resp.v.err = "Codec"
    ELSE resp.v.res = "ok" /\ resp.v.content_length = Some(0)

\* ------------------------------------------------- claims: Response::body

\* Response::body has been called.
BodyTaken == resp # Idle /\ resp.stage \in {"body", "reader", "read_to_end"}

\* The Content-Length of the response: the header's, or the 0 set for 1xx
\* and 204.
ResponseContentLength ==
  IF StatusIsInformational(resp.header.code) \/ resp.header.code = NoContent
  THEN Some(0) ELSE resp.header.content_length

\* The variant the priority of C19 gives.
ExpectedHint ==
  IF resp.method = "HEAD" THEN ReaderHint("Empty", 0)
  ELSE IF ResponseContentLength.some THEN ReaderHint("FixedLength", ResponseContentLength.n)
  ELSE IF resp.header.chunked THEN ReaderHint("Chunked", 0)
  ELSE ReaderHint("ToEnd", 0)

\* C19: Response::body chooses the reader variant by priority: method HEAD
\* gives Empty; else a present Content-Length n gives FixedLength(n); else a
\* Transfer-Encoding with chunked gives Chunked; else ToEnd.  The Empty reader
\* returns 0 from read and an empty slice from fill_buf and does not read the
\* connection.
C19_BodyVariant ==
  /\ BodyTaken => resp.v.reader_hint = ExpectedHint
  /\ (BodyTaken /\ resp.stage = "reader") =>
       /\ rd.variant = ExpectedHint.variant
       /\ (last.op = "reader" /\ rd.variant = "FixedLength") =>
            rd.r.remaining = ExpectedHint.content_length
       /\ (rd.variant = "Empty" /\ last.op \in {"read", "fill_buf"}) =>
            /\ rd.r.res = "ok" /\ rd.r.ret = 0 /\ rd.r.out = <<>>
            /\ rd.r.raw_body = SubSeq(resp.src, HeadLen + 1, Len(resp.src))
            /\ rd.r.loaded = resp.v.raw_body_read

\* The response to a HEAD request declares a Content-Length and chunked, and
\* fill_buf was called on its Empty reader.
C19_Witness ==
  /\ BodyTaken /\ resp.stage = "reader" /\ resp.method = "HEAD"
  /\ resp.header.content_length.some /\ resp.header.chunked
  /\ last.op = "fill_buf"

\* ------------------------------------------ claims: the body of a response

\* The bytes the source delivered after the header.
AfterHeader == SubSeq(resp.src, HeadLen + 1, Len(resp.src))

\* The response is one a server sends to a GET request: status 200, read
\* whole, with a Content-Length, if any, that is the length of what follows
\* the header.
WellFormed ==
  /\ BodyTaken /\ resp.method = "GET" /\ resp.header.code = 200
  /\ resp.header.content_length.some => resp.header.content_length.n = Len(AfterHeader)

\* The body of the response: what the encoder was given when the reader
\* decodes chunks, else the bytes after the header.
ResponseBodyBytes ==
  IF resp.v.reader_hint.variant = "Chunked" THEN Encoded ELSE AfterHeader

IsPrefix(s, u) == Len(s) <= Len(u) /\ s = SubSeq(u, 1, Len(s))

\* read_to_end has room: the body fits the buffer given to Response::read,
\* with a byte to spare when the body is chunked.
HasRoom ==
  IF resp.v.reader_hint.variant = "Chunked"
  THEN Len(ResponseBodyBytes) < Len(resp.v.body_buf)
  ELSE Len(ResponseBodyBytes) <= Len(resp.v.body_buf)

\* C15: however the source fragments its reads, the body bytes read into the
\* header buffer by Response::read come first and in order from the body
\* reader, then the bytes read from the source afterwards: what reader() and
\* read_to_end() deliver is the body the source sent after the header, nothing
\* lost, doubled or out of order.
C15_BodyInOrder ==
  /\ (WellFormed /\ resp.stage = "reader") =>
       /\ rd.r.res = "ok"
       /\ IsPrefix(rd.r.out, ResponseBodyBytes)
       /\ SubSeq(rd.r.buffer, 1, rd.r.loaded) = SubSeq(rd.r.raw_body, 1, rd.r.loaded)
       /\ (last.op \in {"read", "fill_buf"} /\ rd.r.ret = 0) => rd.r.out = ResponseBodyBytes
  /\ (WellFormed /\ resp.stage = "read_to_end") =>
       /\ rd.r.res = "ok" <=> HasRoom
       /\ rd.r.res = "ok" => (rd.r.out = ResponseBodyBytes /\ rd.r.ret = Len(rd.r.out))
       /\ rd.r.res # "ok" => (rd.r.res = "err" /\ rd.r.err = "BufferTooSmall")

\* A chunked body of MaxResponseBody bytes, some of the bytes after the header
\* read with it, was read to its end through reader().
C15_Witness ==
  /\ WellFormed /\ resp.stage = "reader" /\ rd.variant = "Chunked"
  /\ resp.v.raw_body_read > 1
  /\ last.op = "read" /\ rd.r.ret = 0
  /\ rd.r.out = Encoded /\ Len(Encoded) = MaxResponseBody

\* The same body read by read_to_end, in place.
C15_WitnessReadToEnd ==
  /\ WellFormed /\ resp.stage = "read_to_end" /\ rd.variant = "Chunked"
  /\ resp.v.raw_body_read > 1
  /\ rd.r.res = "ok" /\ rd.r.out = Encoded /\ Len(Encoded) = MaxResponseBody

\* ------------------------------------------------- claims: write_request

\* write_request has returned (with a body of declared length above 0).
RequestDone == fw # Idle /\ fw.stage # "new" /\ fw.w.result # "none" /\ fw.len > 0

HeaderBytes == Len(Flat(HeaderParts))

\* FixedBodyWriter::written() is the sum of the counts of the successful write
\* and write_all calls; a failed call leaves it as it was.
WrittenIsCounted == (fw # Idle /\ fw.stage # "new") => fixed_body_written(fw.w) = fw.counted

C20_WitnessOk ==
  /\ RequestDone /\ fw.w.result = "Ok" /\ fw.len = MaxBody /\ ~fw.failed

\* ------------------------------- claims: the buffering writer's buffer indexes

\* The call just made panicked, and not on the assertion of terminate that the
\* writer is not terminated, nor in the write_all loop on a write of nothing.
IndexPanic ==
  /\ bw.res = "panic"
  /\ last.op \in {"write", "flush", "terminate"}
  /\ ~(last.op = "terminate" /\ last.after > 0)

\* C27 (as claimed): for every buffer length and written count new_with_data
\* accepts, no sequence of write, flush and terminate calls indexes the buffer
\* out of bounds or underflows an index computation.
C27_IndexesInBounds == ~IndexPanic

\* No terminate call has been made.
BeforeTerminate == ~bw.terminated /\ last.op # "terminate"

\* C28 (as claimed): before terminate is called, write and flush send no
\* zero-length chunk (0 CRLF CRLF) to the transport.
C28_NoEmptyChunkBeforeTerminate ==
  BeforeTerminate =>
    Let(ParseItems(AfterPrefix(Flat(bw.conn))),
        LAMBDA p : p.ok => \A i \in 1..Len(p.items) : p.items[i] # <<>>)

\* A header slot is reserved and the writer is not terminated.
SlotReserved == bw.allocated_header > 0 /\ ~bw.terminated

\* The body bytes the transport has received in completed writes.
SentBody == Flat(ParseItems(AfterPrefix(Flat(bw.conn))).items)

\* The payload of the open chunk is buf[header_pos + allocated_header .. pos]:
\* those bytes are the bytes accepted from the caller and not yet sent.
PayloadInPlace ==
  /\ bw.header_pos + bw.allocated_header <= bw.pos /\ bw.pos <= Len(bw.buf)
  /\ Accepted = SentBody \o Slice(bw.buf, bw.header_pos + bw.allocated_header, bw.pos)

C29_WitnessNoRoom ==
  /\ SlotReserved /\ bw.res = "ok"
  /\ bw.pos = Len(bw.buf) - 1 /\ Len(bw.buf) >= 6

\* C30 (as claimed): whenever the writer finalises a chunk, the size line is
\* no wider than the reserved slot (header_len <= allocated_header), and the
\* payload is moved so that size line, payload and CRLF are contiguous: what
\* is left in the buffer is one whole chunk holding the payload.
C30_SizeLineFitsSlot ==
  \A i \in 1..Len(bw.fin) :
    /\ bw.fin[i].fits
    /\ bw.fin[i].header_len <= bw.fin[i].slot
    /\ ParseItems(bw.fin[i].chunk) = [ok |-> TRUE, items |-> <<bw.fin[i].payload>>]

\* -------------------------------------- claims: the streaming chunked writer

LowerHexDigit(d) == IF d < 10 THEN 48 + d ELSE 97 + (d - 10)

RECURSIVE LowerHex(_)
\* n in lower-case hex digits without leading zeros.
LowerHex(n) ==
  IF n < 16 THEN <<LowerHexDigit(n)>>
  ELSE Append(LowerHex(n \div 16), LowerHexDigit(n % 16))

\* The three transport writes of a chunk with the payload src.
ThreeWrites(src) == <<LowerHex(Len(src)) \o <<13, 10>>, src, <<13, 10>>>>

\* This step is a write of a source that is not empty.
NonEmptyWrite == last'.op = "write" /\ last'.len > 0 /\ cw' # cw

\* C24: for every non-empty caller write of length n, ChunkedBodyWriter issues
\* exactly three transport writes in this order: the lower-case hex digits of
\* n without leading zeros and CRLF, the n payload bytes, CRLF; write then
\* returns n.  It never returns a short count: it returns n or an error, and
\* then the transport has completed the first writes of the three, or none.
C24_ThreeTransportWrites ==
  [][NonEmptyWrite =>
       Let(ThreeWrites(BodySlice(cw.taken, last'.len)),
           LAMBDA w :
             IF cw'.res = "ok"
             THEN cw'.conn = cw.conn \o w /\ cw'.ret = last'.len
             ELSE /\ cw'.res = "err"
                  /\ \E n \in 0..2 : cw'.conn = cw.conn \o SubSeq(w, 1, n))]_vars

\* A chunk of 26 bytes, size line 1a, has been written after another chunk.
C24_Witness ==
  /\ cw # Idle /\ cw.res = "ok"
  /\ last.op = "write" /\ last.len = 26
  /\ Len(cw.conn) = 6
  /\ cw.conn[4] = <<49, 97, 13, 10>>
  /\ cw.ret = 26

\* -------------------------------------------------- claims: status classes

\* The number of the five predicates that hold.
ClassCount(classes) ==
  Cardinality({f \in DOMAIN classes : classes[f]})

\* The class the hundreds digit of c names, if any.
ClassOf(c) ==
  CASE c \div 100 = 1 -> {"informational"}
    [] c \div 100 = 2 -> {"successful"}
    [] c \div 100 = 3 -> {"redirection"}
    [] c \div 100 = 4 -> {"client_error"}
    [] c \div 100 = 5 -> {"server_error"}
    [] OTHER -> {}

\* C26: for every status code value c of 16 bits, is_informational holds iff
\* 100 <= c <= 199, is_successful iff 200 <= c <= 299, is_redirection iff
\* 300 <= c <= 399, is_client_error iff 400 <= c <= 499, is_server_error iff
\* 500 <= c <= 599; at most one of the five holds for any c, and none holds
\* for Status::Unknown.
C26_StatusClasses ==
  resp.stage = "classified" =>
    /\ {f \in DOMAIN resp.of_code : resp.of_code[f]} = ClassOf(resp.code)
    /\ ClassCount(resp.of_code) <= 1
    /\ ClassCount(resp.of_status) <= 1
    /\ resp.status = StatusUnknown => ClassCount(resp.of_status) = 0

\* The last code of a class, one that Status does not know.
C26_Witness ==
  /\ resp.stage = "classified" /\ resp.code = 299
  /\ resp.of_code.successful /\ resp.status = StatusUnknown

\* ------------------------------------------------- claims: the request header

RECURSIVE CrLfAt(_, _)
\* The offset of the first CRLF of b from offset k on, or Len(b) if none.
CrLfAt(b, k) ==
  IF k + 2 > Len(b) THEN Len(b)
  ELSE IF b[k + 1] = 13 /\ b[k + 2] = 10 THEN k
  ELSE CrLfAt(b, k + 1)

RECURSIVE SplitLines(_)
\* b cut at each CRLF: the lines that end with CRLF, and the rest.
SplitLines(b) ==
  IF CrLfAt(b, 0) = Len(b) THEN [lines |-> <<>>, rest |-> b]
  ELSE Let(SplitLines(SubSeq(b, CrLfAt(b, 0) + 3, Len(b))),
           LAMBDA r : [lines |-> <<SubSeq(b, 1, CrLfAt(b, 0))>> \o r.lines, rest |-> r.rest])

RECURSIVE KeyLen(_, _)
\* The offset of the first ": " of line, or Len(line) if none.
KeyLen(line, k) ==
  IF k + 2 > Len(line) THEN Len(line)
  ELSE IF line[k + 1] = 58 /\ line[k + 2] = 32 THEN k
  ELSE KeyLen(line, k + 1)

\* The name of the header a line holds.
KeyOf(line) == SubSeq(line, 1, KeyLen(line, 0))

\* The names of the headers a request has, in the order claimed.
ExpectedKeys(r) ==
  (IF r.auth.some THEN <<SubSeq(Text.AUTH, 1, 13)>> ELSE <<>>)
  \o (IF r.host.some THEN <<Text.HOST>> ELSE <<>>)
  \o (IF r.content_type.some THEN <<Text.CONTENT_TYPE>> ELSE <<>>)
  \o (IF ~r.body.some THEN <<>>
      ELSE IF r.body.v.len.some THEN <<Text.CONTENT_LENGTH>> ELSE <<Text.TRANSFER_ENCODING>>)
  \o (IF r.extra_headers.some
      THEN [i \in 1..Len(r.extra_headers.v) |-> r.extra_headers.v[i][1]] ELSE <<>>)

\* line is a request line of the method: METHOD SP target SP HTTP/1.1.
IsRequestLine(line, method) ==
  /\ Len(line) > Len(method_as_str(method)) + 9
  /\ SubSeq(line, 1, Len(method_as_str(method)) + 1) = method_as_str(method) \o <<32>>
  /\ SubSeq(line, Len(line) - 8, Len(line)) = SubSeq(Text.VERSION, 1, 9)

\* C25: write_header emits the request line first, then the headers that are
\* present in this fixed order: Authorization, Host, Content-Type, Accept,
\* Content-Length or Transfer-Encoding (never both), then the extra headers in
\* caller order, then a single empty line, and nothing after the empty line.
\* When it fails, what it has emitted is the start of that, without the empty
\* line.
C25_HeaderOrder ==
  fw.stage = "header" =>
    Let(SplitLines(Wire(fw.c)),
        LAMBDA s :
          IF fw.c.res = "ok"
          THEN /\ s.rest = <<>>
               /\ Len(s.lines) = Len(ExpectedKeys(fw.request)) + 2
               /\ IsRequestLine(s.lines[1], fw.request.method)
               /\ [i \in 1..(Len(s.lines) - 2) |-> KeyOf(s.lines[i + 1])]
                    = ExpectedKeys(fw.request)
               /\ s.lines[Len(s.lines)] = <<>>
               /\ \A i \in 1..(Len(s.lines) - 1) : s.lines[i] # <<>>
          ELSE /\ fw.c.res = "err"
               /\ Len(s.lines) <= Len(ExpectedKeys(fw.request)) + 1
               /\ s.lines # <<>> => IsRequestLine(s.lines[1], fw.request.method)
               /\ \A i \in 2..Len(s.lines) :
                    KeyOf(s.lines[i]) = ExpectedKeys(fw.request)[i - 1]
               /\ \A i \in 1..Len(s.lines) : s.lines[i] # <<>>)

\* A header with every header the request can have was written.
C25_Witness ==
  /\ fw # Idle /\ fw.stage = "header" /\ fw.c.res = "ok"
  /\ fw.request.auth.some /\ fw.request.host.some /\ fw.request.content_type.some
  /\ fw.request.body.some /\ fw.request.body.v.len = Some(12)
  /\ fw.request.base_path.some /\ fw.request.path = Sample.relative
  /\ fw.request.extra_headers.some /\ Len(fw.request.extra_headers.v) = 2
  /\ Len(SplitLines(Wire(fw.c)).lines) = 8

\* The header could not be written whole.
C25_WitnessFailed ==
  /\ fw # Idle /\ fw.stage = "header" /\ fw.c.res = "err" /\ fw.c.err = "Network"
  /\ Len(SplitLines(Wire(fw.c)).lines) = 3

\* ------------------------------------------------- claims: a request sent

\* The first send on the connection has returned or panicked, and the
\* connection after it.
SendDone == fw.stage = "sent" \/ (fw.stage = "handle" /\ fw.calls >= 1)
Sent == IF fw.stage = "handle" THEN fw.handle.conn ELSE fw.c

\* The transport took every write and flush, and the server answered.
NoTransportFailure == Sent.io = NoFail /\ fw.server.bytes # <<>>

RECURSIVE SumOf(_)
SumOf(ps) == IF ps = <<>> THEN 0 ELSE Head(ps) + SumOf(Tail(ps))

\* The header lines the connection got after the request line.
HeadLines(c) == Tail(SplitLines(c.head).lines)

HasLine(c, line) == \E i \in 1..Len(HeadLines(c)) : HeadLines(c)[i] = line
HasKey(c, key) == \E i \in 1..Len(HeadLines(c)) : KeyOf(HeadLines(c)[i]) = key

\* "Content-Length: n" for n < 10, and "Transfer-Encoding: chunked".
ContentLengthLine(n) == Text.CONTENT_LENGTH \o <<58, 32, 48 + n>>
ChunkedLine == Text.TRANSFER_ENCODING \o <<58, 32>> \o Text.CHUNKED

\* What was written to the connection after the header.
AfterHead(c) ==
  IF Len(Stream(c)) >= Len(c.head) /\ SubSeq(Stream(c), 1, Len(c.head)) = c.head
  THEN [ok |-> TRUE, bytes |-> SubSeq(Stream(c), Len(c.head) + 1, Len(Stream(c)))]
  ELSE [ok |-> FALSE, bytes |-> <<>>]

\* The framing of a request without a body, with a body of n bytes, and with
\* a body of unknown length.
NoBodyFraming(c) ==
  /\ ~HasKey(c, Text.CONTENT_LENGTH) /\ ~HasKey(c, Text.TRANSFER_ENCODING)
  /\ AfterHead(c).bytes = <<>>

FixedFraming(c, body) ==
  /\ HasLine(c, ContentLengthLine(body.len.n)) /\ ~HasKey(c, Text.TRANSFER_ENCODING)
  /\ body.len.n = 0 => c.writer = "none"
  /\ IF SumOf(body.pieces) = body.len.n
     THEN c.res = "ok" /\ AfterHead(c).bytes = BodySlice(0, body.len.n)
     ELSE c.err = "IncorrectBodyWritten"

ChunkedFraming(c, body) ==
  /\ HasLine(c, ChunkedLine) /\ ~HasKey(c, Text.CONTENT_LENGTH)
  /\ c.res = "ok"
  /\ ParseItems(AfterHead(c).bytes).ok
  /\ ChunksThenTerminator(ParseItems(AfterHead(c).bytes).items)
  /\ Flat(ParseItems(AfterHead(c).bytes).items) = BodySlice(0, SumOf(body.pieces))

\* C21: header and body framing agree for every request sent over a
\* transport that does not fail: a body with len() == Some(n) gives
\* Content-Length: n and then the n raw body bytes (no body writer when n is
\* 0); a body with len() == None gives Transfer-Encoding: chunked and then a
\* chunk-encoded body ended by 0 CRLF CRLF, on Plain, PlainBuffered and Tls;
\* no request has both headers and a request without a body has neither.
C21_FramingAgrees ==
  SendDone /\ NoTransportFailure =>
    /\ AfterHead(Sent).ok
    /\ IF ~fw.request.body.some THEN Sent.res = "ok" /\ NoBodyFraming(Sent)
       ELSE IF fw.request.body.v.len.some THEN FixedFraming(Sent, fw.request.body.v)
       ELSE ChunkedFraming(Sent, fw.request.body.v)

\* Response::read has called conn.read on the connection.
ReadPerformed(c) == c.read_calls > 0

\* The body is on the wire to its last byte: the declared count of raw
\* bytes, or chunks that end with 0 CRLF CRLF.
BodyComplete(c, request) ==
  IF ~request.body.some THEN AfterHead(c).bytes = <<>>
  ELSE IF request.body.v.len.some THEN Len(AfterHead(c).bytes) = request.body.v.len.n
  ELSE /\ Len(AfterHead(c).bytes) >= Len(EMPTY_CHUNK)
       /\ SubSeq(AfterHead(c).bytes, Len(AfterHead(c).bytes) - Len(EMPTY_CHUNK) + 1,
                 Len(AfterHead(c).bytes)) = EMPTY_CHUNK

\* What the transport has taken is the head, or a start of it, or the head
\* and more after it.
HeadFirst(c) ==
  SubSeq(Wire(c), 1, Min(Len(Wire(c)), Len(c.head)))
    = SubSeq(c.head, 1, Min(Len(Wire(c)), Len(c.head)))

\* C22: in every send the whole request head is written to the connection
\* before any body byte; the response is read only after the body's last
\* byte (the chunked terminator included) was written and a flush after it
\* has completed, with nothing left in the write buffer and nothing written
\* since; if a write or the flush fails, send returns the error and reads
\* nothing.
C22_HeadBodyFlushRead ==
  SendDone =>
    /\ IF Sent.head = <<>> THEN Sent.writer = "none" ELSE HeadFirst(Sent)
    /\ ReadPerformed(Sent) =>
         /\ Sent.at_read.flushed /\ Sent.at_read.pending = 0
         /\ Sent.at_read.wire = Wire(Sent)
         /\ Sent.head # <<>> /\ AfterHead(Sent).ok /\ BodyComplete(Sent, fw.request)
    /\ ~ReadPerformed(Sent) => ResultOf(Sent) \in {"Network", "IncorrectBodyWritten", "panic"}
    /\ (Sent.torn # <<>> \/ ~Sent.io.flush_ok) => ~ReadPerformed(Sent)

\* A body of unknown length sent in two pieces over a buffered connection,
\* and the response read.
C22_Witness ==
  /\ SendDone /\ Sent.kind = "PlainBuffered" /\ ResultOf(Sent) = "Ok"
  /\ fw.request.body.some /\ fw.request.body.v.pieces = <<2, 1>>
  /\ ~fw.request.body.v.len.some
  /\ ReadPerformed(Sent)

\* The flush failed after the whole request was written.
C22_WitnessFlushFailed ==
  /\ SendDone /\ ~Sent.io.flush_ok /\ ResultOf(Sent) = "Network"
  /\ Sent.kind = "Plain" /\ BodyComplete(Sent, fw.request) /\ fw.request.body.some

\* C23: HttpRequestHandle::send is one-shot.  Every call leaves the handle
\* without a request; every call after the first returns Error::AlreadySent
\* and leaves the connection as it was (nothing written, nothing read),
\* whether the first call succeeded or failed.
C23_OneShot ==
  [][fw.stage = "handle" =>
       /\ ~fw'.handle.request.some
       /\ fw.calls >= 1 =>
            /\ fw'.handle.result = "AlreadySent"
            /\ fw'.handle.conn = fw.handle.conn]_vars

\* A second call after the first returned the response.
C23_Witness ==
  /\ fw.stage = "handle" /\ fw.calls >= 2
  /\ fw.handle.result = "AlreadySent"
  /\ fw.handle.conn.res = "ok" /\ ReadPerformed(fw.handle.conn)

\* A second call after the first failed on the transport.
C23_WitnessFailed ==
  /\ fw.stage = "handle" /\ fw.calls >= 2
  /\ fw.handle.result = "AlreadySent"
  /\ fw.handle.conn.err = "Network" /\ ~ReadPerformed(fw.handle.conn)

\* ------------------------------------------------- the size of a header slot

\* The buffer sizes get_max_chunk_header_size is asked about: through
\* 16^3 + 4 and some more.
MaxBufferSize == 4200

\* The longest buffer of a BufferingReader in the decoding runs.
MaxDecodeBuf == 3

InitSize ==
  /\ bw = Idle /\ rd = Idle /\ cw = Idle /\ resp = Idle
  /\ raw = FALSE
  /\ last = [op |-> "new", len |-> 0, written |-> 0, after |-> 0]
  /\ \E n \in 0..MaxBufferSize : fw = [stage |-> "buffer_size", n |-> n, size |-> 0]

\* get_max_chunk_header_size(n)
HeaderSize ==
  /\ fw.stage = "buffer_size"
  /\ fw' = [fw EXCEPT !.stage = "header_size", !.size = get_max_chunk_header_size(fw.n)]
  /\ UNCHANGED <<bw, last, raw, cw, rd, resp>>

NextSize == HeaderSize

SpecSize == InitSize /\ [][NextSize]_vars

\* ------------------------------------------- claims: the size of a header slot

\* The least k with 16^k >= m: ceil(log16(m)) for m >= 1, and 0 for m = 0
\* (where the logarithm has no value).
CeilLog16(m) == CHOOSE k \in 0..7 : 16^k >= m /\ (k > 0 => 16^(k - 1) < m)

\* The count of hex digits of m, most significant digit not zero; one digit
\* for 0.
HexDigits(m) == CHOOSE k \in 1..7 : m < 16^k /\ (k > 1 => 16^(k - 1) <= m)

\* C31 as stated: get_max_chunk_header_size(n) is ceil(log16(n - 4)) + 2 for
\* every n >= 4 and 0 for every n < 4.
C31_CeilLog16 ==
  fw.stage = "header_size" =>
    fw.size = IF fw.n >= 4 THEN CeilLog16(fw.n - 4) + 2 ELSE 0

\* C31 amended: get_max_chunk_header_size(n) is the count of hex digits of
\* n - 4 (one digit for 0) plus 2 for every n >= 4, and 0 for every n < 4.
C31_HexDigitsPlusNewline ==
  fw.stage = "header_size" =>
    fw.size = IF fw.n >= 4 THEN HexDigits(fw.n - 4) + 2 ELSE 0

\* A buffer whose payload room is a power of 16: the size line needs one
\* digit more than ceil(log16) says.
C31_Witness == fw.stage = "header_size" /\ fw.n = 16 + 4 /\ fw.size = 4

\* ------------------------------------------- a chunked body decoded in steps

\* One chunk as it travels: the size line, CRLF, n bytes of the body from
\* body offset `from`, CRLF.
DecodeChunk(line, n, from) == line \o NEWLINE \o BodySlice(from, n) \o NEWLINE

\* Size lines of valid chunks and the lengths they announce: one digit,
\* eight digits with leading zeros.
SizeLines ==
  { [line |-> <<49>>, n |-> 1], [line |-> <<50>>, n |-> 2],
    [line |-> <<48, 48, 48, 48, 48, 48, 48, 51>>, n |-> 3] }

\* Size lines of chunks longer than what the source delivers of them: a
\* letter of either case, a leading zero, eight digits of both cases
\* (a, A, 0b, 0fffFFff).
LongSizeLines ==
  { <<97>>, <<65>>, <<48, 98>>, <<48, 102, 102, 102, 70, 70, 102, 102>> }

\* Size lines of the terminating chunk.
Terminators == { <<48>>, <<48, 48, 48>> }

\* What stands where a size line is expected and is none: a bare CRLF, a
\* letter that is no hex digit, a digit and such a letter, nine digits, ten
\* digits, a digit and a lone LF, a lone LF, a chunk extension, a CR among the
\* digits, a lone CR before the CRLF, a blank before the digit.
BadHeads ==
  { NEWLINE, <<103>> \o NEWLINE, <<49, 103>> \o NEWLINE,
    <<48, 48, 48, 48, 48, 48, 48, 48, 49>> \o NEWLINE,
    <<48, 48, 48, 48, 48, 48, 48, 48, 48, 49>> \o NEWLINE,
    <<49, 10>>, <<10>>, <<49, 59, 120>> \o NEWLINE, <<49, 13, 49>> \o NEWLINE,
    <<13>> \o NEWLINE, <<32, 49>> \o NEWLINE }

LastChunk == <<48>> \o NEWLINE \o NEWLINE

TwoChunks == DecodeChunk(<<50>>, 2, 0) \o DecodeChunk(<<49>>, 1, 2) \o LastChunk

\* The streams a source may deliver, each with the body its valid chunks
\* carry: one chunk and the terminating chunk, with or without a byte after
\* it; only the terminating chunk; the start of a long chunk; two chunks,
\* whole or cut anywhere; a chunk and two CRLFs; a
\* chunk whose data is not followed by CRLF; a bad size line, first or second.
DecodeLayouts ==
  { [stream |-> DecodeChunk(l.line, l.n, 0) \o t \o NEWLINE \o NEWLINE \o x,
     payload |-> BodySlice(0, l.n)] :
       l \in SizeLines, t \in Terminators, x \in {<<>>, <<88>>} }
  \cup { [stream |-> t \o NEWLINE \o NEWLINE, payload |-> <<>>] : t \in Terminators }
  \cup { [stream |-> l \o NEWLINE \o BodySlice(0, 2), payload |-> BodySlice(0, 2)] :
           l \in LongSizeLines }
  \cup { [stream |-> SubSeq(TwoChunks, 1, k), payload |-> BodySlice(0, 3)] :
           k \in 0..Len(TwoChunks) }
  \cup { [stream |-> <<49>> \o NEWLINE \o BodySlice(0, 1) \o <<88, 89>> \o LastChunk,
          payload |-> BodySlice(0, 1)] }
  \cup { [stream |-> DecodeChunk(<<49>>, 1, 0) \o NEWLINE \o NEWLINE,
          payload |-> BodySlice(0, 1)] }
  \cup { [stream |-> b \o BodySlice(0, 1) \o NEWLINE \o LastChunk, payload |-> <<>>] :
           b \in BadHeads }
  \cup { [stream |-> DecodeChunk(<<49>>, 1, 0) \o b \o BodySlice(1, 1) \o NEWLINE \o LastChunk,
          payload |-> BodySlice(0, 1)] : b \in BadHeads }

\* The reader is made over the source itself, or over a BufferingReader whose
\* buffer of blen bytes holds the first `loaded` bytes of the stream.
InitDecode ==
  /\ bw = Idle /\ resp = Idle /\ fw = Idle
  /\ cw = chunked_new
  /\ raw = FALSE
  /\ \E layout \in DecodeLayouts :
       /\ last = [op |-> "new", len |-> 0, after |-> 0, failed |-> FALSE, slice |-> 0,
                  stream |-> layout.stream, payload |-> layout.payload]
       /\ \/ rd = reader_new(layout.stream)
          \/ \E blen \in 1..MaxDecodeBuf : \E loaded \in 0..Min(blen, Len(layout.stream)) :
               rd = OverBuffering(
                      reader_new(layout.stream),
                      BufferingReader(CopyInto([i \in 1..blen |-> 0], 0,
                                               SubSeq(layout.stream, 1, loaded)),
                                      loaded,
                                      SubSeq(layout.stream, loaded + 1, Len(layout.stream))))

\* The bookkeeping of a call: the caller may call again after Ok(0) or Err,
\* MaxAfter times.
DecodeCall(op, len) ==
  [last EXCEPT !.op = op, !.len = len,
               !.failed = @ \/ rd.res # "ok",
               !.after = IF rd.res = "ok" /\ (last.op \in {"new", "consume"} \/ rd.ret > 0)
                         THEN @ ELSE @ + 1]

\* read into a buffer of buf_len bytes; the source hands over one byte at a
\* time, or as many as are asked for.
DecodeRead ==
  \E buf_len \in 1..MaxReadBuf : \E avail \in {1, MaxReadBuf} :
    /\ last.after < MaxAfter
    /\ rd' = read([rd EXCEPT !.res = "ok", !.err = "none"], buf_len, avail)
    /\ last' = DecodeCall("read", buf_len)
    /\ UNCHANGED <<resp, fw, bw, raw, cw>>

DecodeFillBuf ==
  \E avail \in {1, MaxReadBuf} :
    /\ last.after < MaxAfter
    /\ Buffered(rd)
    /\ rd' = chunked_fill_buf([rd EXCEPT !.res = "ok", !.err = "none"], avail)
    /\ last' = DecodeCall("fill_buf", 0)
    /\ UNCHANGED <<resp, fw, bw, raw, cw>>

\* consume(amt) after a fill_buf that returned a slice: amt is at most the
\* slice's length, or (MaxAfter times) one more.  The caller has taken the
\* bytes of the slice it consumes.
DecodeConsume ==
  \E amt \in 0..(MaxDecodeBuf + 1) :
    /\ last.op = "fill_buf" /\ rd.res = "ok"
    /\ amt <= rd.ret \/ (amt = rd.ret + 1 /\ last.after < MaxAfter)
    /\ rd' = [chunked_consume(rd, amt) EXCEPT
                !.out = @ \o SubSeq(rd.buffer, 1, Min(amt, rd.ret))]
    /\ last' = [last EXCEPT !.op = "consume", !.len = amt,
                            !.slice = rd.ret,
                            !.after = IF amt <= rd.ret THEN @ ELSE @ + 1]
    /\ UNCHANGED <<resp, fw, bw, raw, cw>>

NextDecode == DecodeRead \/ DecodeFillBuf \/ DecodeConsume

SpecDecode == InitDecode /\ [][NextDecode]_vars

\* ------------------------------------------- claims: a chunked body decoded

\* The bytes the call that made this step took from the source.
Taken == SubSeq(rd.raw_body, 1, Len(rd.raw_body) - Len(rd'.raw_body))

\* The call took a size line from the source, after the CRLF of the chunk
\* before it if the reader was at a chunk's end.
SizeLineTaken ==
  /\ \E i \in 1..Len(Taken) : Taken[i] = 10
  /\ rd.chunk_remaining = NotEmpty(0) => Len(Taken) > 2 /\ SubSeq(Taken, 1, 2) = NEWLINE

\* The bytes the call yielded: what read returned, what consume was asked for.
Yielded ==
  CASE last'.op = "read" -> IF rd'.res = "ok" THEN rd'.ret ELSE 0
    [] last'.op = "consume" -> last'.len
    [] OTHER -> 0

\* Nothing of the source moved.
SourceUntouched ==
  /\ rd'.raw_body = rd.raw_body
  /\ Buffered(rd) => rd'.loaded = rd.loaded /\ rd'.buffer = rd.buffer

C32_Step ==
  CASE rd.chunk_remaining = Empty ->
         /\ rd'.chunk_remaining = Empty
         /\ SourceUntouched
         /\ rd'.out = rd.out
         /\ last'.op \in {"read", "fill_buf"} => rd'.res = "ok" /\ rd'.ret = 0
    [] rd.chunk_remaining.tag = "NotEmpty" /\ rd.chunk_remaining.n > 0 ->
         rd'.chunk_remaining = NotEmpty(rd.chunk_remaining.n - Min(Yielded, rd.chunk_remaining.n))
    [] OTHER ->
         \/ rd'.chunk_remaining = rd.chunk_remaining
         \/ /\ last'.op \in {"read", "fill_buf"}
            /\ SizeLineTaken
            /\ \/ rd'.chunk_remaining = Empty
               \/ /\ rd'.chunk_remaining.tag = "NotEmpty"
                  /\ rd'.chunk_remaining.n + Yielded > 0

\* C32: the chunk state changes only from NoChunk or NotEmpty(0), by a call
\* that takes a size line (and the CRLF before it) from the source, to Empty
\* or to NotEmpty(n) with n > 0 less the bytes the same call yields, and from
\* NotEmpty(k) to NotEmpty(k - j) for the j <= k bytes yielded or consumed;
\* from Empty it never changes: every read returns 0, every fill_buf an empty
\* slice, and the source is left as it is.
C32_ChunkStateTransitions == [][C32_Step]_vars

\* A body was read to its end, and read again.
C32_Witness ==
  /\ last.op = "read" /\ last.after > 0 /\ ~last.failed
  /\ rd.chunk_remaining = Empty
  /\ Len(last.payload) = 3 /\ rd.out = last.payload

\* An ASCII hex digit of either case, and its value.
AsciiHexDigit(c) == c \in (48..57) \cup (65..70) \cup (97..102)

AsciiHexValue(c) == IF c <= 57 THEN c - 48 ELSE IF c <= 70 THEN c - 55 ELSE c - 87

RECURSIVE SizeValue(_)
\* The number the hex digits ds write.
SizeValue(ds) ==
  IF ds = <<>> THEN 0
  ELSE 16 * SizeValue(SubSeq(ds, 1, Len(ds) - 1)) + AsciiHexValue(ds[Len(ds)])

\* The place of the first LF of b, 0 if b has none.
FirstLF(b) ==
  IF \E i \in 1..Len(b) : b[i] = 10
  THEN CHOOSE i \in 1..Len(b) : b[i] = 10 /\ \A j \in 1..(i - 1) : b[j] # 10
  ELSE 0

NoSize(kind) == [kind |-> kind, n |-> 0]

\* b where a size line is expected, its first LF at p: ten bytes without a
\* line end, an LF without a CR before it, a byte before the CR that is no
\* hex digit ("Codec"); digits and CRLF ("Size"); CRLF alone ("NoDigit");
\* the stream ends within the line ("Eof").
SizeLineAt(b, p) ==
  IF p > 10 \/ (p = 0 /\ Len(b) >= 10) THEN NoSize("Codec")
  ELSE IF p = 0 THEN NoSize("Eof")
  ELSE IF p = 1 \/ b[p - 1] # 13 THEN NoSize("Codec")
  ELSE IF \E i \in 1..(p - 2) : ~AsciiHexDigit(b[i]) THEN NoSize("Codec")
  ELSE IF p = 2 THEN NoSize("NoDigit")
  ELSE [kind |-> "Size", n |-> SizeValue(SubSeq(b, 1, p - 2))]

SizeLine(b) == SizeLineAt(b, FirstLF(b))

\* The step is a read or fill_buf that finds the reader where a size line is
\* expected: before the first chunk, or at a chunk's end with the chunk's
\* CRLF ahead.
AtSizeLine ==
  /\ last'.op \in {"read", "fill_buf"}
  /\ \/ rd.chunk_remaining = NoChunk
     \/ /\ rd.chunk_remaining = NotEmpty(0)
        /\ Len(rd.raw_body) >= 2 /\ SubSeq(rd.raw_body, 1, 2) = NEWLINE

\* What the source holds where the size line is expected.
SizeLineBytes ==
  IF rd.chunk_remaining = NoChunk THEN rd.raw_body
  ELSE SubSeq(rd.raw_body, 3, Len(rd.raw_body))

C33_Step ==
  /\ rd'.res # "panic"
  /\ AtSizeLine =>
       CASE SizeLine(SizeLineBytes).kind = "Codec" ->
              /\ rd'.res = "err" /\ rd'.err = "Codec"
              /\ rd'.chunk_remaining = rd.chunk_remaining
         [] SizeLine(SizeLineBytes).kind = "Size" ->
              IF SizeLine(SizeLineBytes).n = 0 THEN rd'.chunk_remaining = Empty
              ELSE /\ rd'.res = "ok"
                   /\ rd'.chunk_remaining = NotEmpty(SizeLine(SizeLineBytes).n - Yielded)
         [] OTHER -> TRUE

\* C33: where a size line is expected, a call fails with Codec if the first
\* ten bytes have no LF, if the LF has no CR before it, or if a byte before
\* the CR is no hex digit; after one to eight hex digits of either case and
\* CRLF the chunk state is Empty if they write 0 and else NotEmpty of their
\* value (less the bytes the same call yields); no call panics.
C33_SizeLine == [][C33_Step]_vars

\* The size line 0fffFFff was read.
C33_Witness ==
  /\ last.op = "fill_buf" /\ rd.res = "ok"
  /\ Len(last.stream) >= 8
  /\ SubSeq(last.stream, 1, 8) = <<48, 102, 102, 102, 70, 70, 102, 102>>
  /\ rd.chunk_remaining = NotEmpty(268435455)

\* A size line of nine digits was refused.
C33_WitnessNineDigits ==
  /\ last.op = "read" /\ rd.res = "err" /\ rd.err = "Codec"
  /\ Len(last.stream) >= 11
  /\ SubSeq(last.stream, 1, 11) = <<48, 48, 48, 48, 48, 48, 48, 48, 49>> \o NEWLINE
  /\ rd.chunk_remaining = NoChunk

C34_Step ==
  (AtSizeLine /\ SizeLine(SizeLineBytes).kind = "NoDigit") =>
    /\ rd'.res = "err" /\ rd'.err = "Codec"
    /\ rd'.chunk_remaining # Empty

\* C34: where a size line is expected, a CRLF with no hex digit before it
\* makes the call fail with Codec, and the reader is not done.
C34_BareCrlfRejected == [][C34_Step]_vars

\* The bytes the call handed to the caller are the next bytes of the body, and
\* no more of them than the current chunk still holds: out keeps being a
\* prefix of the body the chunks carry, and the slice fill_buf returned
\* continues it.
WithinChunk ==
  /\ last'.op = "read" /\ rd'.res = "ok" =>
       /\ rd'.out = rd.out \o SubSeq(rd'.out, Len(rd.out) + 1, Len(rd.out) + rd'.ret)
       /\ IsPrefix(rd'.out, last.payload)
  /\ last'.op = "fill_buf" /\ rd'.res = "ok" =>
       /\ rd'.ret <= chunk_len(rd'.chunk_remaining)
       /\ rd'.ret <= rd'.loaded
       /\ IsPrefix(rd.out \o SubSeq(rd'.buffer, 1, rd'.ret), last.payload)

\* (In a step, last'.failed tells whether a call before this one failed.)

\* By how much the step lowered the chunk counter, and the source position.
CounterDrop == chunk_len(rd.chunk_remaining) - chunk_len(rd'.chunk_remaining)

SourceDrop == Len(rd.raw_body) - Len(rd'.raw_body)

C35_StepAsStated ==
  ~last'.failed =>
    /\ WithinChunk
    /\ last'.op = "consume" =>
         /\ CounterDrop = Min(last'.len, chunk_len(rd.chunk_remaining))
         /\ SourceDrop = Min(last'.len, chunk_len(rd.chunk_remaining))
         /\ rd.loaded - rd'.loaded = SourceDrop

\* C35 as stated: every slice of fill_buf and every range filled by read holds
\* the next bytes of the current chunk's data and no others, and consume(amt)
\* lowers the chunk counter and the source position both by
\* min(amt, remaining).
C35_WithinChunkSameAmount == [][C35_StepAsStated]_vars

C35_Step ==
  ~last'.failed =>
    /\ WithinChunk
    /\ last'.op = "consume" =>
         /\ CounterDrop = Min(last'.len, chunk_len(rd.chunk_remaining))
         /\ SourceDrop = Min(CounterDrop, rd.loaded)
         /\ rd.loaded - rd'.loaded = SourceDrop
         /\ last'.len <= last'.slice => CounterDrop = last'.len /\ SourceDrop = last'.len

\* C35, amended: every slice of fill_buf and every range filled by read holds
\* the next bytes of the current chunk's data and no others; consume(amt)
\* lowers the chunk counter by min(amt, remaining) and the source position by
\* that amount or by the count of loaded bytes if that is less; both drop by
\* amt when amt is at most the length of the slice fill_buf returned.
C35_WithinChunkLoadedAmount == [][C35_Step]_vars

\* Part of a slice was consumed that ended at the chunk's end with bytes of
\* the next size line loaded behind it.
C35_Witness ==
  /\ last.op = "consume" /\ last.len > 0 /\ last.len <= last.slice /\ ~last.failed
  /\ rd.chunk_remaining = NotEmpty(0)
  /\ rd.loaded > 0

\* ----------------------------- a chunked response read to its end in place

\* The body of the response read in place is at most MaxInPlaceBody bytes
\* long: as long as the shortest buffer that holds the header, and longer.
MaxInPlaceBody == 6

\* The encoder writes the next chunk of the body, of 1..MaxWrite bytes.
InPlaceEncode ==
  \E k \in 1..MaxWrite :
    /\ resp = Idle /\ cw.taken + k <= MaxInPlaceBody
    /\ cw' = CwCall("write_all", k)
    /\ last' = [last EXCEPT !.op = "write_all", !.len = k]
    /\ UNCHANGED <<bw, raw, rd, resp, fw>>

\* The server answers a GET request with status 200 and the body in chunks.
InPlaceServe ==
  /\ resp = Idle
  /\ resp' = [stage |-> "conn", header |-> Header(200, None, TRUE, TRUE, TRUE),
              method |-> "GET",
              src |-> HeadBytes(HeadLen) \o Payload(TRUE),
              v |-> HeadBytes(HeadLen) \o Payload(TRUE)]
  /\ cw' = CwCall("terminate", 0)
  /\ last' = [last EXCEPT !.op = "terminate", !.len = 0]
  /\ UNCHANGED <<bw, raw, rd, fw>>

\* Response::read into a buffer that holds the header and up to MaxExtra
\* bytes more.
InPlaceRead ==
  \E buf_len \in HeadLen..(HeadLen + MaxExtra) : \E avail \in Frags :
    /\ resp # Idle /\ resp.stage = "conn"
    /\ resp' = [resp EXCEPT !.stage = "response",
                            !.v = response_read(resp.v, resp.header, resp.method, buf_len, avail)]
    /\ last' = [last EXCEPT !.op = "response_read", !.len = buf_len]
    /\ UNCHANGED <<bw, raw, cw, rd, fw>>

NextInPlace == InPlaceEncode \/ InPlaceServe \/ InPlaceRead \/ Body \/ BodyReadToEnd

SpecInPlace == InitReader /\ [][NextInPlace]_vars

\* --------------------------------- claims: a chunked response read to its end

\* ResponseBody::read_to_end has returned for a chunked response a server
\* sends to a GET request.
ChunkedReadToEnd ==
  resp # Idle /\ resp.stage = "read_to_end" /\ WellFormed /\ rd.variant = "Chunked"

\* C36: read_to_end on a chunked response returns the decoded body, in the
\* buffer that followed the header, whenever the body is no longer than that
\* buffer, whatever the chunks, the bytes read along with the header and the
\* fragments the source delivers; it returns BufferTooSmall only when the
\* body is longer than the buffer.
C36_ReadToEndInPlace ==
  ChunkedReadToEnd =>
    /\ Len(Encoded) <= Len(resp.v.body_buf) =>
         rd.r.res = "ok" /\ rd.r.out = Encoded /\ rd.r.ret = Len(Encoded)
    /\ (rd.r.res = "err" /\ rd.r.err = "BufferTooSmall") =>
         Len(Encoded) > Len(resp.v.body_buf)

\* ------------------- a chunked response read to its end, one round at a time

\* The server answers a GET request with status 200 and the body in chunks;
\* the connection delivers the header and all of the body, or closes within
\* the body.
RoundsServe ==
  /\ resp = Idle
  /\ \E cut \in HeadLen..Len(HeadBytes(HeadLen) \o Payload(TRUE)) :
       resp' = [stage |-> "conn", header |-> Header(200, None, TRUE, TRUE, TRUE),
                method |-> "GET",
                whole |-> cut = Len(HeadBytes(HeadLen) \o Payload(TRUE)),
                src |-> SubSeq(HeadBytes(HeadLen) \o Payload(TRUE), 1, cut)]
  /\ cw' = CwCall("terminate", 0)
  /\ last' = [last EXCEPT !.op = "terminate", !.len = 0]
  /\ UNCHANGED <<bw, raw, rd, fw>>

\* Response::read into a buffer that holds the header and up to MaxExtra
\* bytes more.
RoundsRead ==
  \E buf_len \in HeadLen..(HeadLen + MaxExtra) : \E avail \in Frags :
    /\ resp # Idle /\ resp.stage = "conn"
    /\ resp' = [stage |-> "response", header |-> resp.header, method |-> resp.method,
                whole |-> resp.whole, src |-> resp.src,
                v |-> response_read(resp.src, resp.header, resp.method, buf_len, avail)]
    /\ last' = [last EXCEPT !.op = "response_read", !.len = buf_len]
    /\ UNCHANGED <<bw, raw, cw, rd, fw>>

\* ChunkedBodyReader::read_to_end up to its loop: the reader over the
\* buffer; front: the bytes of the buffer the reader's slice has moved past.
ReadToEndBegin ==
  /\ resp # Idle /\ resp.stage = "body"
  /\ resp' = [resp EXCEPT !.stage = "read_to_end"]
  /\ rd' = [stage |-> "loop", front |-> <<>>, len |-> 0,
            r |-> OverBuffering(
                    reader_new(BufferingReader(resp.v.body_buf, resp.v.raw_body_read,
                                               resp.v.conn).raw_body),
                    BufferingReader(resp.v.body_buf, resp.v.raw_body_read, resp.v.conn))]
  /\ last' = [last EXCEPT !.op = "read_to_end"]
  /\ UNCHANGED <<bw, raw, cw, fw>>

Returned(self, r) == [self EXCEPT !.stage = "returned", !.r = r]

\* One round of the loop of ChunkedBodyReader::read_to_end after fill_buf
\* returned f, or the loop's end and what follows it.
read_to_end_round_filled(self, f) ==
  IF f.res # "ok" THEN Returned(self, f)
  ELSE Let(chunked_consume([f EXCEPT !.loaded = Min(f.ret, f.loaded)], f.ret),
           LAMBDA c :
             IF is_done(c)
             THEN Returned(self, chunked_read_to_end_result(c, self.front, self.len + f.ret))
             ELSE [self EXCEPT
                     !.r = chunked_read_to_end_move(c, f.loaded, Min(f.ret, f.loaded) - c.loaded),
                     !.front = @ \o SubSeq(c.buffer, 1, Min(f.ret, f.loaded) - c.loaded),
                     !.len = @ + f.ret])

read_to_end_round(self, avail) ==
  IF Len(self.r.buffer) = 0
  THEN Returned(self, chunked_read_to_end_result(self.r, self.front, self.len))
  ELSE read_to_end_round_filled(self, chunked_fill_buf(self.r, avail))

InLoop == rd # Idle /\ rd.stage = "loop"

\* The future of read_to_end is polled in its loop: one more round is run.
\* last.after is the parity of the count of rounds run, which makes a round a
\* step even when it changes nothing else.
RoundRun == InLoop /\ last' = [last EXCEPT !.op = "round", !.after = 1 - @]

\* The loop goes one round on; the source hands over one byte, or all it has.
ReadToEndRound ==
  \E avail \in {1, AllAtHand} :
    /\ RoundRun
    /\ rd' = read_to_end_round(rd, avail)
    /\ UNCHANGED <<bw, raw, cw, resp, fw>>

NextRounds ==
  \/ EncodeChunk \/ RoundsServe \/ RoundsRead \/ Body
  \/ ReadToEndBegin \/ ReadToEndRound

\* read_to_end, once called, is run on: while it is in its loop the executor
\* keeps polling it.  The steps of NextRounds that are RoundRun steps are the
\* ReadToEndRound steps, and both are enabled exactly while InLoop holds, so
\* this is weak fairness of ReadToEndRound.
SpecRounds == InitReader /\ [][NextRounds]_vars /\ WF_last(RoundRun)

\* -------------- claims: a chunked response read to its end, round by round

HasReturned == rd # Idle /\ rd.stage = "returned"

\* C37: read_to_end, once in its loop, returns; when the connection closed
\* before the terminating chunk it returns an error.
C37_ReadToEndTerminates ==
  /\ InLoop ~> HasReturned
  /\ [](HasReturned /\ ~resp.whole => rd.r.res = "err")

\* ------------------------------- claims: a body without a length read to end

\* BodyReader::read_to_end has returned for a ToEnd body; the source held
\* Encoded, the buffer was of last.len bytes.
ToEndRead == rd # Idle /\ last.op = "read_to_end" /\ rd.variant = "ToEnd"

\* C38: read_to_end on a ToEnd body returns Ok with all the source held when
\* that is less than the buffer or fills it exactly, and BufferTooSmall when
\* the source held more than the buffer, one byte of which the probe read has
\* taken; the probe read is made if and only if the buffer was filled.
C38_ToEndProbe ==
  ToEndRead =>
    /\ Len(Encoded) <= last.len =>
         /\ rd.r.res = "ok" /\ rd.r.ret = Len(Encoded) /\ rd.r.out = Encoded
         /\ rd.r.raw_body = <<>>
    /\ Len(Encoded) > last.len =>
         /\ rd.r.res = "err" /\ rd.r.err = "BufferTooSmall"
         /\ rd.r.out = SubSeq(Encoded, 1, last.len)
         /\ rd.r.raw_body = SubSeq(Encoded, last.len + 2, Len(Encoded))
    /\ Probed(rd) <=> Len(rd.r.out) = last.len

\* The source ended exactly when the buffer was full: the probe read found
\* nothing.
C38_Witness ==
  /\ ToEndRead /\ last.len > 0 /\ Len(Encoded) = last.len
  /\ Probed(rd) /\ rd.r.res = "ok"

\* The probe read found a byte.
C38_WitnessTooSmall ==
  /\ ToEndRead /\ last.len > 0 /\ Len(Encoded) > last.len + 1
  /\ Probed(rd) /\ rd.r.res = "err"

\* ------------------------------------------- writes through a BufferedWrite

\* The buffer of a BufferedWrite is at most MaxTx bytes long, a write at most
\* one byte longer; MaxBufferedCalls calls are made.
MaxTx == 3

MaxBufferedCalls == 4

\* The inner writer completes every call, fails its first, second or third
\* write after taking none of the bytes or all but the last, or fails a flush.
BufferedPlans ==
  {NoFail, [ok_calls |-> -1, part |-> "none", flush_ok |-> FALSE]}
  \cup [ok_calls : 0..2, part : {"none", "most"}, flush_ok : {TRUE}]

\* c: the BufferedWrite and its inner writer; offered: the bytes the caller
\* has offered to write so far; accepted: the prefixes the writes that
\* returned Ok(n) accepted, in order; failed: a call has returned Err.
InitBuffered ==
  /\ bw = Idle /\ rd = Idle /\ cw = Idle /\ resp = Idle
  /\ raw = FALSE
  /\ last = [op |-> "new", len |-> 0, written |-> 0, after |-> 0]
  /\ \E n \in 0..MaxTx : \E io \in BufferedPlans :
       fw = [c |-> http_connection("PlainBuffered", [i \in 1..n |-> 0], FALSE, io),
             op |-> "new", offered |-> 0, accepted |-> <<>>, calls |-> 0, failed |-> FALSE]

\* The connection as the caller finds it for its next call, the inner writer
\* taking all of its next write (short = FALSE) or all but one byte.
BufferedNext(short) == [fw.c EXCEPT !.res = "ok", !.ret = 0, !.short = short]

AcceptedOf(c, data) == IF c.res = "ok" THEN SubSeq(data, 1, c.ret) ELSE <<>>

\* write(data) with the next len bytes of the caller's data.
BufferedWrite ==
  \E len \in 0..(MaxTx + 1) : \E short \in BOOLEAN :
    /\ fw.calls < MaxBufferedCalls
    /\ fw' = [fw EXCEPT
                !.c = buffered_write(BufferedNext(short), BodySlice(fw.offered, len)),
                !.op = "write",
                !.calls = @ + 1,
                !.offered = @ + Len(AcceptedOf(buffered_write(BufferedNext(short),
                                                           BodySlice(fw.offered, len)),
                                            BodySlice(fw.offered, len))),
                !.accepted = @ \o AcceptedOf(buffered_write(BufferedNext(short),
                                                         BodySlice(fw.offered, len)),
                                          BodySlice(fw.offered, len)),
                !.failed = @ \/ buffered_write(BufferedNext(short),
                                               BodySlice(fw.offered, len)).res # "ok"]
    /\ UNCHANGED <<bw, last, raw, cw, rd, resp>>

BufferedFlush ==
  /\ fw.calls < MaxBufferedCalls
  /\ fw' = [fw EXCEPT !.c = buffered_flush(BufferedNext(FALSE)),
                      !.op = "flush",
                      !.calls = @ + 1,
                      !.failed = @ \/ buffered_flush(BufferedNext(FALSE)).res # "ok"]
  /\ UNCHANGED <<bw, last, raw, cw, rd, resp>>

NextBuffered == BufferedWrite \/ BufferedFlush

SpecBuffered == InitBuffered /\ [][NextBuffered]_vars

\* ----------------------------------- claims: writes through a BufferedWrite

\* The bytes the inner writer received in this step.
NewlyReceived == SubSeq(Wire(fw'.c), Len(Wire(fw.c)) + 1, Len(Wire(fw'.c)))

\* What the buffer held before this step.
WasBuffered == Slice(fw.c.tx, 0, fw.c.tx_pos)

\* A write made with bytes in the buffer hands the inner writer nothing
\* before those bytes.
BufferFirst ==
  (fw'.op = "write" /\ fw.c.tx_pos > 0) =>
    IsPrefix(NewlyReceived, WasBuffered) \/ IsPrefix(WasBuffered, NewlyReceived)

C39_StepAnyOutcome ==
  /\ fw'.c.tx_pos <= Len(fw'.c.tx)
  /\ Stream(fw'.c) = fw'.accepted
  /\ BufferFirst
  /\ (fw'.op = "flush" /\ fw'.c.res = "ok") =>
       fw'.c.tx_pos = 0 /\ Wire(fw'.c) = fw'.accepted

\* C39 for every sequence of calls, those the inner writer fails included:
\* pos is at most the buffer's length; what the inner writer received, then
\* the pos bytes buffered, is the concatenation of the prefixes the writes
\* accepted; a write made with bytes in the buffer sends those first; after a
\* flush that returned Ok pos is 0 and the inner writer has received all that
\* was accepted.
C39_AcceptedInOrderAlways == [][C39_StepAnyOutcome]_vars

\* The same for the calls made while no call has returned Err.
C39_AcceptedInOrderWhileOk == [][~fw'.failed => C39_StepAnyOutcome]_vars

\* ------------------- claims: a body of unknown length on a buffered connection

\* The first send was of a body of unknown length on a PlainBuffered
\* connection whose transport took every write and flush.
BufferedChunkedSent ==
  /\ SendDone /\ NoTransportFailure
  /\ Sent.kind = "PlainBuffered"
  /\ fw.request.body.some /\ ~fw.request.body.v.len.some

\* What the transport received after the head.
WireAfterHead(c) ==
  IF Len(Wire(c)) >= Len(c.head) /\ SubSeq(Wire(c), 1, Len(c.head)) = c.head
  THEN [ok |-> TRUE, bytes |-> SubSeq(Wire(c), Len(c.head) + 1, Len(Wire(c)))]
  ELSE [ok |-> FALSE, bytes |-> <<>>]

\* The transport received the head once, then chunks that carry the body's
\* bytes once each and in order, then the terminator, and nothing else.
OnceOnTheWire(c, body) ==
  /\ c.head # <<>> /\ WireAfterHead(c).ok
  /\ ParseItems(WireAfterHead(c).bytes).ok
  /\ ChunksThenTerminator(ParseItems(WireAfterHead(c).bytes).items)
  /\ Flat(ParseItems(WireAfterHead(c).bytes).items) = BodySlice(0, SumOf(body.pieces))

\* C40: a request with a body of unknown length sent over a PlainBuffered
\* connection: the head held in the write buffer and the chunked body go out
\* through that buffer, the transport receives each byte exactly once, and
\* after the body is terminated the buffered connection holds no unsent
\* byte, so that the flush that follows sends nothing again.
C40_OnceThroughTheBuffer ==
  BufferedChunkedSent =>
    /\ Sent.res = "ok"
    /\ Sent.writer = "BufferingChunked"
    /\ OnceOnTheWire(Sent, fw.request.body.v)
    /\ Sent.tx_pos = 0
    /\ Sent.at_read.wire = Wire(Sent)

\* The same for the sends that did not panic in the chunked writer.
C40_OnceUnlessPanic ==
  (BufferedChunkedSent /\ Sent.res # "panic") =>
    /\ Sent.res = "ok"
    /\ Sent.writer = "BufferingChunked"
    /\ OnceOnTheWire(Sent, fw.request.body.v)
    /\ Sent.tx_pos = 0
    /\ Sent.at_read.wire = Wire(Sent)

====
